---- MODULE Spec2Model ----
(***************************************************************************)
(* State-machine model of the drawing-review application: the App state    *)
(* (src/App.tsx), the CanvasEditor mask editor                             *)
(* (src/components/CanvasEditor.tsx), the Toolbar's enabling conditions    *)
(* (src/components/Toolbar.tsx), the detection and audit plumbing          *)
(* (src/services/geminiService.ts) and the file intake                     *)
(* (src/components/WelcomeScreen.tsx).                                     *)
(*                                                                         *)
(* Numbers. A JavaScript number that holds a normalized coordinate is      *)
(* modelled in fixed point: the integer v stands for v / Unit.  Pixel      *)
(* quantities (clientX, scrollLeft, naturalWidth) are whole pixels, the    *)
(* zoom factor is counted in tenths (7 is 0.7).  File indices are 1-based  *)
(* here and 0-based in the source.                                         *)
(***************************************************************************)
EXTENDS Integers, Sequences, FiniteSets, TLC

VARIABLES
    appMode,            \* App: appMode
    currentMode,        \* App: currentMode (the tool mode chosen in the toolbar)
    files,              \* App: files, a sequence of ProjectFile records
    currentFileIndex,   \* App: currentFileIndex (1-based)
    zoom,               \* App: zoom, in tenths
    isProcessing,       \* App: isProcessing
    notification,       \* App: notification
    hasApiKey,          \* process.env.API_KEY is set
    now,                \* the millisecond clock read by Date.now()
    image,              \* CanvasEditor: image (0 is null, else the file whose url it decoded)
    imageSize,          \* CanvasEditor: imageSize
    currentRect,        \* CanvasEditor: currentRect
    dragRef,            \* CanvasEditor: dragRef.current
    scroll,             \* containerRef.current.scrollLeft / scrollTop
    loads,              \* Image objects whose onload / onerror has not fired yet
    requests,           \* handleAutoDetect invocations that are suspended at an await
    randomCalls,        \* how many values Math.random() has handed out
    overflow,           \* how far the canvas overflows the scroll container, in pixels
    drag,               \* history: the last gesture as the user performed it, how it ended,
                        \* and while it lasts the file that was active at its pointer-down
    projectDesc,        \* App: projectDesc
    exportTrigger,      \* App: exportTrigger
    downloads,          \* what the browser has been handed to save: link.click(), saveAs
    batches,            \* handleBatchExport invocations that are suspended at an await
    audits              \* handleAudit / handleBatchAudit invocations suspended at an await

vars == << appMode, currentMode, files, currentFileIndex, zoom, isProcessing,
           notification, hasApiKey, now, image, imageSize, currentRect, dragRef,
           scroll, loads, requests, randomCalls, overflow, drag, projectDesc,
           exportTrigger, downloads, batches, audits >>

appVars == << appMode, currentMode, files, currentFileIndex, zoom, isProcessing,
              notification >>

editorVars == << image, imageSize, currentRect, dragRef, scroll, loads, drag >>

envVars == << hasApiKey, now, requests, randomCalls, overflow >>

ioVars == << projectDesc, exportTrigger, downloads, batches, audits >>

-----------------------------------------------------------------------------
(* Bounds of the model *)

\* rectangles one mask collection may hold before further commits are held back
MaxMasks == 2
\* how far the clock advances in a behaviour
MaxClock == 1
\* detection requests that may be in flight together
MaxRequests == 1
\* Math.random() calls in a behaviour
MaxRandom == 2
\* files the browser is handed to save in a behaviour
MaxExports == 1
\* handleBatchExport invocations that may be in flight together
MaxBatches == 1
\* handleAudit / handleBatchAudit invocations that may be in flight together
MaxAudits == 1
\* how far the zoom buttons take the zoom from its default, in tenths
MaxZoomSteps == 1

-----------------------------------------------------------------------------
(* Number representation and program constants *)

\* fixed-point resolution of a normalized number: Unit stands for 1.0
Unit == 100000
\* 0.005, the minimum size threshold of handleMouseUp
MinSize == 500
\* setZoom(0.7) on image load
DefaultZoom == 7
\* useState(1) for zoom
InitialZoom == 10
\* the divisor of the 0-1000 detector scale
DetectorScale == 1000
\* Math.max(z - 0.1, 0.1) and Math.min(z + 0.1, 5) of the zoom buttons
ZoomMin == 1
ZoomMax == 50

Min(a, b) == IF a < b THEN a ELSE b
Max(a, b) == IF a > b THEN a ELSE b
Abs(a) == IF a < 0 THEN -a ELSE a

-----------------------------------------------------------------------------
(* Inputs *)

\* A file name is the sequence of its pieces: a "." or a "/", or a run of
\* characters that holds neither.

\* toLowerCase() on the extensions that occur
ToLowerCase(t) ==
    CASE t = "JPG" -> "jpg"
      [] t = "PNG" -> "png"
      [] OTHER -> t

\* getFileType: filename.split('.').pop() is the last piece of the name
getFileType(filename) ==
    LET ext == ToLowerCase(filename[Len(filename)])
    IN  IF ext \in { "jpg", "jpeg", "png", "webp" } THEN "image"
        ELSE IF ext \in { "glb", "gltf" } THEN "3d"
        ELSE IF ext \in { "xlsx", "xls", "csv" } THEN "table"
        ELSE IF ext = "pdf" THEN "pdf"
        ELSE "unknown"

\* what processFile keeps of an image, 3D or table file: its name, its type,
\* and whether its bytes decode as an image
Processed(name, decodes) ==
    [name |-> name, type |-> getFileType(name), decodes |-> decodes]

\* what processFile keeps of page i of a PDF: `${file.name} [P${i}]`, an image
PdfPage(name, i) ==
    [name |-> name \o << " [P", i, "]" >>, type |-> "image", decodes |-> TRUE]

\* the files a project is started with
ImageFile == Processed(<< "a", ".", "jpg" >>, TRUE)
PngImageFile == Processed(<< "a", ".", "png" >>, TRUE)
CorruptImageFile == Processed(<< "b", ".", "PNG" >>, FALSE)
ModelFile == Processed(<< "m", ".", "glb" >>, FALSE)
TableFile == Processed(<< "t", ".", "csv" >>, FALSE)

\* projects of one image, alone or beside a file of another type
SingleImageProjects ==
    { << ImageFile >>,
      << ImageFile, ModelFile >>,
      << TableFile, ImageFile >>,
      << CorruptImageFile >> }
\* a project of two images
TwoImageProjects == { << ImageFile, PngImageFile >> }
\* the projects the mask editor is exercised on
EditorProjects ==
    { << ImageFile >>,
      << ImageFile, ModelFile >>,
      << CorruptImageFile >> }

\* intrinsic pixel size of every decodable image
NaturalSize == [width |-> 2000, height |-> 2000]

\* where the scroll container sits in the viewport
ContainerOrigin == [left |-> 320, top |-> 0]

\* the window sizes of the environment, as the range the container scrolls
\* over: the canvas fits, or it overflows by some pixels
FittingWindow == [left |-> 0, top |-> 0]
NarrowWindow == [left |-> 7, top |-> 0]

\* the image pixels the pointer is put on: the corners of a box whose sides
\* exceed the minimum size, and a point on its lower side whose distance to
\* the corners is the minimum size exactly
Corners ==
    { [x |-> 200, y |-> 400], [x |-> 220, y |-> 400],
      [x |-> 200, y |-> 420], [x |-> 220, y |-> 420] }
Points == Corners \cup { [x |-> 210, y |-> 420] }
\* two opposite corners, and the upper left one
Diagonal == { [x |-> 200, y |-> 400], [x |-> 220, y |-> 420] }
UpperLeft == { [x |-> 200, y |-> 400] }

-----------------------------------------------------------------------------
(* Values *)

NoLabel == "undefined"
NoRect == [some |-> FALSE, x |-> 0, y |-> 0, w |-> 0, h |-> 0]
NoNotification == [msg |-> "none", type |-> "none"]
NoPos == [x |-> 0, y |-> 0]
NoDrag == [kind |-> "none", a |-> NoPos, b |-> NoPos, ended |-> "no", of |-> 0]
InitialDragRef ==
    [isDown |-> FALSE, startX |-> 0, startY |-> 0, scrollLeft |-> 0, scrollTop |-> 0]
NoImageSize == [width |-> 0, height |-> 0]

\* a ProjectFile as processFile builds it
\* blob stands for the bytes of the file, which the name identifies
NewProjectFile(f) ==
    [name |-> f.name, blob |-> f.name, type |-> f.type, decodes |-> f.decodes,
     masks |-> << >>, auditResult |-> "none"]

\* variant: every toast is a success toast
NotifySuccessMutant(msg, type) == [msg |-> msg, type |-> "success"]

\* showNotification(msg, type): the toast set; msg is a key for the text
showNotification(msg, type) == [msg |-> msg, type |-> type]

-----------------------------------------------------------------------------
(* Derived values of a render *)

HasCurrent == appMode # "WELCOME" /\ currentFileIndex \in DOMAIN files

\* MainViewer renders the CanvasEditor for image files only
ShowsEditor(fs, idx) == idx \in DOMAIN fs /\ fs[idx].type = "image"

EditorMounted == appMode # "WELCOME" /\ ShowsEditor(files, currentFileIndex)

\* variant: the editor gets the selected tool in every application mode
ModePropSelectedMutant == currentMode

\* the mode prop MainViewer gets from App
ModeProp == IF appMode = "DESENSITIZE" THEN currentMode ELSE "PAN"

\* Toolbar: isImageMode
IsImageMode == HasCurrent /\ files[currentFileIndex].type = "image"

\* the canvas receives pointer events only while it is rendered
CanvasShown == EditorMounted /\ image # 0

-----------------------------------------------------------------------------
(* Mask Store *)

\* variant: the collection goes to the file that is active when the update is
\* applied
MaskChangeActiveMutant(prev, idx, newMasks) ==
    IF currentFileIndex \notin DOMAIN prev \/ prev[currentFileIndex].type # "image"
    THEN prev
    ELSE [prev EXCEPT ![currentFileIndex].masks = newMasks]

\* variant: the file is built anew around the collection, without the fields
\* it has gathered
MaskChangeFreshFileMutant(prev, idx, newMasks) ==
    IF idx \notin DOMAIN prev \/ prev[idx].type # "image"
    THEN prev
    ELSE [prev EXCEPT ![idx] = [NewProjectFile(prev[idx]) EXCEPT !.masks = newMasks]]

\* setFiles(prev => ...) of handleMaskChange, for the file index of the
\* closure and the collection its argument yields
handleMaskChange(prev, idx, newMasks) ==
    IF idx \notin DOMAIN prev \/ prev[idx].type # "image"
    THEN prev
    ELSE [prev EXCEPT ![idx].masks = newMasks]

-----------------------------------------------------------------------------
(* Coordinate model *)

\* the canvas element's bounding client rect
CanvasRect ==
    [left |-> ContainerOrigin.left - scroll.left,
     top |-> ContainerOrigin.top - scroll.top,
     width |-> (imageSize.width * zoom) \div 10,
     height |-> (imageSize.height * zoom) \div 10]

\* the client position of the pointer when it is over image pixel p
ClientPos(p) ==
    [x |-> CanvasRect.left + (p.x * zoom) \div 10,
     y |-> CanvasRect.top + (p.y * zoom) \div 10]

getNormalizedPos(e) ==
    [x |-> ((e.x - CanvasRect.left) * Unit) \div CanvasRect.width,
     y |-> ((e.y - CanvasRect.top) * Unit) \div CanvasRect.height]

\* variant: the extents are made positive, the origin is not moved
NormalizeNoShiftMutant(r) ==
    [r EXCEPT !.w = Abs(r.w), !.h = Abs(r.h)]

\* "Normalize negative dims" of handleMouseUp
NormalizeDrag(r) ==
    [r EXCEPT !.x = IF r.w < 0 THEN r.x + r.w ELSE r.x,
              !.w = IF r.w < 0 THEN Abs(r.w) ELSE r.w,
              !.y = IF r.h < 0 THEN r.y + r.h ELSE r.y,
              !.h = IF r.h < 0 THEN Abs(r.h) ELSE r.h]

\* variant: the threshold itself passes
ExceedsMinSizeInclusiveMutant(r) == r.w >= MinSize /\ r.h >= MinSize

\* "Minimum size threshold to prevent accidental clicks"
ExceedsMinSize(r) == r.w > MinSize /\ r.h > MinSize

\* Date.now().toString()
ManualId == [kind |-> "manual", t |-> now, r |-> 0]

NewManualMask(r) ==
    [id |-> ManualId, x |-> r.x, y |-> r.y, w |-> r.w, h |-> r.h,
     type |-> "manual", label |-> NoLabel]

\* the browser keeps a scroll offset inside the scrollable range
ClampScroll(v, range) == Max(0, Min(v, range))

\* variant: the canvas scrolls along with the drag
PanWithDragMutant(e) ==
    [left |-> ClampScroll(dragRef.scrollLeft + (e.x - dragRef.startX), overflow.left),
     top |-> ClampScroll(dragRef.scrollTop + (e.y - dragRef.startY), overflow.top)]

\* the pan branch of handleMouseMove: "Scroll opposite to drag direction"
PanScroll(e) ==
    [left |-> ClampScroll(dragRef.scrollLeft - (e.x - dragRef.startX), overflow.left),
     top |-> ClampScroll(dragRef.scrollTop - (e.y - dragRef.startY), overflow.top)]

-----------------------------------------------------------------------------
(* Initial state: the App as constructed, showing the WelcomeScreen *)

Constructed(window) ==
    /\ appMode = "WELCOME"
    /\ currentMode = "PAN"
    /\ files = << >>
    /\ currentFileIndex = 1
    /\ zoom = InitialZoom
    /\ isProcessing = FALSE
    /\ notification = NoNotification
    /\ hasApiKey = TRUE
    /\ now = 0
    /\ image = 0
    /\ imageSize = NoImageSize
    /\ currentRect = NoRect
    /\ dragRef = InitialDragRef
    /\ scroll = [left |-> 0, top |-> 0]
    /\ loads = {}
    /\ requests = << >>
    /\ randomCalls = 0
    /\ overflow = window
    /\ drag = NoDrag
    /\ projectDesc = ""
    /\ exportTrigger = 0
    /\ downloads = << >>
    /\ batches = << >>
    /\ audits = << >>

Init == Constructed(FittingWindow)

-----------------------------------------------------------------------------
(* CanvasEditor life cycle *)

\* the pending Image objects of an editor instance that was unmounted: their
\* onload still runs, on a component that is gone
Orphaned(ls) == { [l EXCEPT !.alive = FALSE] : l \in ls }

\* a freshly mounted CanvasEditor whose image loading effect has run for file idx
MountEditor(idx) ==
    /\ image' = 0
    /\ imageSize' = NoImageSize
    /\ currentRect' = NoRect
    /\ dragRef' = InitialDragRef
    /\ scroll' = [left |-> 0, top |-> 0]
    /\ loads' = Orphaned(loads) \cup { [src |-> idx, alive |-> TRUE] }
    /\ drag' = NoDrag

\* the CanvasEditor is removed from the tree
UnmountEditor ==
    /\ image' = 0
    /\ imageSize' = NoImageSize
    /\ currentRect' = NoRect
    /\ dragRef' = InitialDragRef
    /\ scroll' = [left |-> 0, top |-> 0]
    /\ loads' = Orphaned(loads)
    /\ drag' = NoDrag

\* the render after the files or the index changed: mount, unmount, or rerun
\* the image loading effect because imageSrc changed
Rerender(wasMounted, oldIdx, fs, idx) ==
    IF ShowsEditor(fs, idx)
    THEN IF wasMounted
         THEN IF idx = oldIdx
              THEN UNCHANGED editorVars
              ELSE /\ loads' = loads \cup { [src |-> idx, alive |-> TRUE] }
                   /\ UNCHANGED << image, imageSize, currentRect, dragRef, scroll, drag >>
         ELSE MountEditor(idx)
    ELSE IF wasMounted THEN UnmountEditor ELSE UNCHANGED editorVars

\* handleProjectStart
ProjectStart(description, loadedFiles) ==
    /\ appMode = "WELCOME"
    /\ projectDesc' = description
    /\ files' = [i \in DOMAIN loadedFiles |-> NewProjectFile(loadedFiles[i])]
    /\ currentFileIndex' = 1
    /\ appMode' = "DESENSITIZE"
    /\ notification' = showNotification("project_loaded", "success")
    /\ Rerender(FALSE, currentFileIndex, files', 1)
    /\ UNCHANGED << currentMode, zoom, isProcessing, hasApiKey, now, requests,
                    randomCalls, overflow, exportTrigger, downloads, batches, audits >>

\* onFileSelect = setCurrentFileIndex, from a click on the file list
SelectFile(idx) ==
    /\ appMode # "WELCOME"
    /\ idx \in DOMAIN files
    /\ idx # currentFileIndex
    /\ currentFileIndex' = idx
    /\ Rerender(EditorMounted, currentFileIndex, files, idx)
    /\ UNCHANGED << appMode, currentMode, files, zoom, isProcessing, notification,
                    hasApiKey, now, requests, randomCalls, overflow, ioVars >>

\* the tabs and the "next step" button of the Toolbar
SetAppMode(m) ==
    /\ appMode # "WELCOME"
    /\ m # appMode
    /\ appMode' = m
    /\ UNCHANGED << currentMode, files, currentFileIndex, zoom, isProcessing,
                    notification, hasApiKey, now, requests, randomCalls, overflow, ioVars >>
    /\ UNCHANGED editorVars

\* the pan / mask tool buttons of the Toolbar
SetMode(m) ==
    /\ appMode = "DESENSITIZE"
    /\ IsImageMode
    /\ m # currentMode
    /\ currentMode' = m
    /\ UNCHANGED << appMode, files, currentFileIndex, zoom, isProcessing,
                    notification, hasApiKey, now, requests, randomCalls, overflow, ioVars >>
    /\ UNCHANGED editorVars

\* img.onload of the image loading effect
ImageOnLoad(l) ==
    /\ l \in loads
    /\ files[l.src].decodes
    /\ loads' = loads \ {l}
    /\ zoom' = DefaultZoom
    /\ IF l.alive
       THEN /\ image' = l.src
            /\ imageSize' = NaturalSize
            /\ currentRect' = NoRect
       ELSE UNCHANGED << image, imageSize, currentRect >>
    /\ UNCHANGED << appMode, currentMode, files, currentFileIndex, isProcessing,
                    notification, hasApiKey, now, dragRef, scroll, requests, randomCalls,
                    overflow, ioVars, drag >>

\* the image cannot be decoded: the effect sets no onerror handler
ImageOnError(l) ==
    /\ l \in loads
    /\ ~ files[l.src].decodes
    /\ loads' = loads \ {l}
    /\ UNCHANGED << appMode, currentMode, files, currentFileIndex, zoom, isProcessing,
                    notification, hasApiKey, now, image, imageSize, currentRect,
                    dragRef, scroll, requests, randomCalls, overflow, ioVars, drag >>

-----------------------------------------------------------------------------
(* Interaction handlers of the CanvasEditor *)

handleMouseDown(e) ==
    /\ CanvasShown
    /\ dragRef' = [isDown |-> TRUE, startX |-> e.x, startY |-> e.y,
                   scrollLeft |-> IF ModeProp = "PAN" THEN scroll.left ELSE dragRef.scrollLeft,
                   scrollTop |-> IF ModeProp = "PAN" THEN scroll.top ELSE dragRef.scrollTop]
    /\ currentRect' = IF ModeProp = "DRAW"
                      THEN [some |-> TRUE, x |-> getNormalizedPos(e).x,
                            y |-> getNormalizedPos(e).y, w |-> 0, h |-> 0]
                      ELSE currentRect
    /\ drag' = IF ModeProp = "DRAW"
               THEN [kind |-> "draw", a |-> getNormalizedPos(e),
                     b |-> getNormalizedPos(e), ended |-> "no", of |-> currentFileIndex]
               ELSE [kind |-> "pan", a |-> [x |-> scroll.left, y |-> scroll.top],
                     b |-> [x |-> e.x, y |-> e.y], ended |-> "no",
                     of |-> currentFileIndex]
    /\ UNCHANGED << image, imageSize, scroll, loads >>
    /\ UNCHANGED << appVars, envVars, ioVars >>

handleMouseMove(e) ==
    /\ CanvasShown
    /\ IF ~ dragRef.isDown
       THEN UNCHANGED << scroll, currentRect, drag >>
       ELSE /\ scroll' = IF ModeProp = "PAN" THEN PanScroll(e) ELSE scroll
            /\ currentRect' = IF ModeProp = "DRAW" /\ currentRect.some
                              THEN [currentRect EXCEPT
                                        !.w = getNormalizedPos(e).x - currentRect.x,
                                        !.h = getNormalizedPos(e).y - currentRect.y]
                              ELSE currentRect
            /\ drag' = IF ModeProp = "DRAW" /\ drag.kind = "draw"
                       THEN [drag EXCEPT !.b = getNormalizedPos(e)]
                       ELSE IF ModeProp = "PAN" /\ drag.kind = "pan"
                            THEN drag
                            ELSE [kind |-> "mixed", a |-> NoPos, b |-> NoPos,
                                  ended |-> "no", of |-> drag.of]
    /\ UNCHANGED << image, imageSize, dragRef, loads >>
    /\ UNCHANGED << appVars, envVars, ioVars >>

\* setMasks(prev => [...prev, newMask]), applied by handleMaskChange of the
\* current render
CommitMask(prev, idx, r) ==
    handleMaskChange(prev, idx, Append(prev[idx].masks, NewManualMask(r)))

\* the draw branch of handleMouseUp for the in-progress rectangle r: the files
\* it leaves
ReleaseRect(prev, idx, r) ==
    IF ExceedsMinSize(NormalizeDrag(r))
    THEN CommitMask(prev, idx, NormalizeDrag(r))
    ELSE prev

\* the in-progress rectangle after a pointer-down at client position ea and a
\* pointer-move to eb, both in draw mode
DraggedRect(ea, eb) ==
    [some |-> TRUE,
     x |-> getNormalizedPos(ea).x,
     y |-> getNormalizedPos(ea).y,
     w |-> getNormalizedPos(eb).x - getNormalizedPos(ea).x,
     h |-> getNormalizedPos(eb).y - getNormalizedPos(ea).y]

handleMouseUp ==
    /\ CanvasShown
    /\ dragRef' = [dragRef EXCEPT !.isDown = FALSE]
    /\ drag' = IF dragRef.isDown THEN [drag EXCEPT !.ended = "up", !.of = 0] ELSE drag
    /\ IF ModeProp = "DRAW" /\ currentRect.some
       THEN /\ currentRect' = NoRect
            /\ files' = ReleaseRect(files, currentFileIndex, currentRect)
            /\ Len(files'[currentFileIndex].masks) <= MaxMasks
       ELSE UNCHANGED << currentRect, files >>
    /\ UNCHANGED << image, imageSize, scroll, loads >>
    /\ UNCHANGED << appMode, currentMode, currentFileIndex, zoom, isProcessing,
                    notification, hasApiKey, now, requests, randomCalls, overflow, ioVars >>

\* variant: the leave ends the drag and keeps the in-progress rectangle
LeaveKeepsRectMutant ==
    /\ CanvasShown
    /\ IF dragRef.isDown
       THEN /\ dragRef' = [dragRef EXCEPT !.isDown = FALSE]
            /\ drag' = [drag EXCEPT !.ended = "leave", !.of = 0]
       ELSE UNCHANGED << dragRef, drag >>
    /\ UNCHANGED << image, imageSize, currentRect, scroll, loads >>
    /\ UNCHANGED << appVars, envVars, ioVars >>

handleMouseLeave ==
    /\ CanvasShown
    /\ IF dragRef.isDown
       THEN /\ dragRef' = [dragRef EXCEPT !.isDown = FALSE]
            /\ currentRect' = NoRect
            /\ drag' = [drag EXCEPT !.ended = "leave", !.of = 0]
       ELSE UNCHANGED << dragRef, currentRect, drag >>
    /\ UNCHANGED << image, imageSize, scroll, loads >>
    /\ UNCHANGED << appVars, envVars, ioVars >>

\* a whole draw drag of an idle editor: pointer-down on a, pointer-move to b
\* and pointer-up, with no other event between them
DrawGesture(a, b) ==
    /\ CanvasShown
    /\ ModeProp = "DRAW"
    /\ ~ dragRef.isDown
    /\ dragRef' = [dragRef EXCEPT !.startX = ClientPos(a).x, !.startY = ClientPos(a).y]
    /\ currentRect' = NoRect
    /\ files' = ReleaseRect(files, currentFileIndex, DraggedRect(ClientPos(a), ClientPos(b)))
    /\ Len(files'[currentFileIndex].masks) <= MaxMasks
    /\ drag' = [kind |-> "draw", a |-> getNormalizedPos(ClientPos(a)),
                 b |-> getNormalizedPos(ClientPos(b)), ended |-> "up", of |-> 0]
    /\ UNCHANGED << image, imageSize, scroll, loads >>
    /\ UNCHANGED << appMode, currentMode, currentFileIndex, zoom, isProcessing,
                    notification, hasApiKey, now, requests, randomCalls, overflow, ioVars >>

MouseDown(P) == \E p \in P : handleMouseDown(ClientPos(p))
MouseMove(P) == \E p \in P : handleMouseMove(ClientPos(p))

-----------------------------------------------------------------------------
(* Toolbar mask operations *)

\* onClear = handleMaskChange([]), shown in DESENSITIZE mode for an image
Clear ==
    /\ appMode = "DESENSITIZE"
    /\ IsImageMode
    /\ files' = handleMaskChange(files, currentFileIndex, << >>)
    /\ UNCHANGED << appMode, currentMode, currentFileIndex, zoom, isProcessing,
                    notification, hasApiKey, now, requests, randomCalls, overflow, ioVars >>
    /\ UNCHANGED editorVars

\* variant: the copies hold the source rectangles in reverse order
CopyReversedMutant(prev, sourceMasks) ==
    [i \in DOMAIN prev |->
        IF prev[i].type = "image"
        THEN [prev[i] EXCEPT !.masks = [j \in DOMAIN sourceMasks |->
                                           sourceMasks[Len(sourceMasks) + 1 - j]]]
        ELSE prev[i]]

\* variant: every file gets the collection, whatever its type
CopyToEveryFileMutant(prev, sourceMasks) ==
    [i \in DOMAIN prev |-> [prev[i] EXCEPT !.masks = sourceMasks]]

\* prev.map(f => f.type === 'image' ? { ...f, masks: [...sourceMasks] } : f)
CopyMasks(prev, sourceMasks) ==
    [i \in DOMAIN prev |->
        IF prev[i].type = "image"
        THEN [prev[i] EXCEPT !.masks = sourceMasks]
        ELSE prev[i]]

\* handleApplyMasksToAll, shown in DESENSITIZE mode for an image; confirmed is
\* the answer to window.confirm
handleApplyMasksToAll(confirmed) ==
    /\ appMode = "DESENSITIZE"
    /\ IsImageMode
    /\ IF Len(files[currentFileIndex].masks) = 0
       THEN /\ notification' = showNotification("no_masks_to_copy", "error")
            /\ UNCHANGED files
       ELSE IF ~ confirmed
            THEN UNCHANGED << files, notification >>
            ELSE /\ files' = CopyMasks(files, files[currentFileIndex].masks)
                 /\ notification' = showNotification("masks_applied", "success")
    /\ UNCHANGED << appMode, currentMode, currentFileIndex, zoom, isProcessing,
                    hasApiKey, now, requests, randomCalls, overflow, ioVars >>
    /\ UNCHANGED editorVars

ApplyMasksToAll == \E confirmed \in BOOLEAN : handleApplyMasksToAll(confirmed)

-----------------------------------------------------------------------------
(* Detection reconciler *)

\* the detector's answers: a list of {label, box_2d}, box_2d being
\* [ymin, xmin, ymax, xmax]; a box on the 0-1000 scale, and a box whose xmax
\* is its xmin
ScaleBox == << 100 * Unit, 200 * Unit, 400 * Unit, 600 * Unit >>
FlatBox == << 100 * Unit, 300 * Unit, 400 * Unit, 300 * Unit >>
DetectorResults ==
    { << >>,
      << [label |-> "title", box_2d |-> ScaleBox] >>,
      << [label |-> "title", box_2d |-> ScaleBox],
         [label |-> "phone", box_2d |-> FlatBox] >> }

\* variant: the scale is decided once for the whole box
PerTupleMutant(coords, v) ==
    IF \E i \in DOMAIN coords : coords[i] > Unit THEN v \div DetectorScale ELSE v

\* v > 1 ? v / 1000 : v, for a value v computed from the box coords
Rescale(coords, v) == IF v > Unit THEN v \div DetectorScale ELSE v

\* the x, y, w, h that results.map computes for one result
ReconcileBox(b) ==
    [x |-> Rescale(b, b[2]),
     y |-> Rescale(b, b[1]),
     w |-> Rescale(b, b[4] - b[2]),
     h |-> Rescale(b, b[3] - b[1])]

\* `ai-${Date.now()}-${Math.random()}` for the j-th result of a response
AiId(j) == [kind |-> "ai", t |-> now, r |-> randomCalls + j]

\* results.map(r => ({...}))
NewAiMasks(results) ==
    [j \in DOMAIN results |->
        [id |-> AiId(j),
         x |-> ReconcileBox(results[j].box_2d).x,
         y |-> ReconcileBox(results[j].box_2d).y,
         w |-> ReconcileBox(results[j].box_2d).w,
         h |-> ReconcileBox(results[j].box_2d).h,
         type |-> "ai",
         label |-> results[j].label]]

\* variant: the detected rectangles replace the collection
ReplaceMasksMutant(prev, newMasks) == newMasks

\* variant: a detected rectangle that the collection already holds is skipped
MergeSkipKnownMutant(prev, newMasks) ==
    prev \o SelectSeq(newMasks,
                      LAMBDA m : ~ \E i \in DOMAIN prev :
                                      /\ prev[i].x = m.x /\ prev[i].y = m.y
                                      /\ prev[i].w = m.w /\ prev[i].h = m.h)

\* variant: the detected rectangles are put before the collection
MergePrependMutant(prev, newMasks) == newMasks \o prev

\* prev => [...prev, ...newMasks]
MergeMasks(prev, newMasks) == prev \o newMasks

RemoveAt(seq, k) == [i \in 1..(Len(seq) - 1) |-> IF i < k THEN seq[i] ELSE seq[i + 1]]

\* handleAutoDetect up to its first await; the button is shown in DESENSITIZE
\* mode for an image and is disabled while isProcessing
AutoDetect ==
    /\ appMode = "DESENSITIZE"
    /\ IsImageMode
    /\ ~ isProcessing
    /\ IF files[currentFileIndex].type # "image"
       THEN /\ notification' = showNotification("unsupported_format", "error")
            /\ UNCHANGED << isProcessing, requests >>
       ELSE IF ~ hasApiKey
            THEN /\ notification' = showNotification("missing_api_key", "error")
                 /\ UNCHANGED << isProcessing, requests >>
            ELSE /\ Len(requests) < MaxRequests
                 /\ isProcessing' = TRUE
                 /\ requests' = Append(requests,
                                       [idx |-> currentFileIndex, stage |-> "fetch"])
                 /\ UNCHANGED notification
    /\ UNCHANGED << appMode, currentMode, files, currentFileIndex, zoom, hasApiKey,
                    now, randomCalls, overflow, ioVars >>
    /\ UNCHANGED editorVars

\* fetch(currentFile.url) and response.blob() succeed: reader.readAsDataURL
DetectFetched(k) ==
    /\ k \in DOMAIN requests
    /\ requests[k].stage = "fetch"
    /\ requests' = [requests EXCEPT ![k].stage = "read"]
    /\ UNCHANGED << appVars, hasApiKey, now, randomCalls, overflow, ioVars >>
    /\ UNCHANGED editorVars

\* fetch or response.blob() throws: the outer catch
DetectFetchFailed(k) ==
    /\ k \in DOMAIN requests
    /\ requests[k].stage = "fetch"
    /\ requests' = RemoveAt(requests, k)
    /\ isProcessing' = FALSE
    /\ notification' = showNotification("read_failed", "error")
    /\ UNCHANGED << appMode, currentMode, files, currentFileIndex, zoom, hasApiKey,
                    now, randomCalls, overflow, ioVars >>
    /\ UNCHANGED editorVars

\* reader.onloadend: detectSensitiveData is called and awaited
DetectReadEnd(k) ==
    /\ k \in DOMAIN requests
    /\ requests[k].stage = "read"
    /\ requests' = [requests EXCEPT ![k].stage = "detect"]
    /\ UNCHANGED << appVars, hasApiKey, now, randomCalls, overflow, ioVars >>
    /\ UNCHANGED editorVars

\* detectSensitiveData resolves with results; handleMaskChange is the one of
\* the render in which handleAutoDetect was called
DetectResolved(k, results) ==
    /\ k \in DOMAIN requests
    /\ requests[k].stage = "detect"
    /\ requests' = RemoveAt(requests, k)
    /\ isProcessing' = FALSE
    /\ notification' = IF Len(results) = 0
                       THEN showNotification("nothing_detected", "success")
                       ELSE showNotification("detected", "success")
    /\ IF Len(results) = 0
       THEN UNCHANGED << files, randomCalls >>
       ELSE /\ Len(files[requests[k].idx].masks) + Len(results) <= MaxMasks
            /\ randomCalls + Len(results) <= MaxRandom
            /\ randomCalls' = randomCalls + Len(results)
            /\ files' = handleMaskChange(files, requests[k].idx,
                            MergeMasks(files[requests[k].idx].masks, NewAiMasks(results)))
    /\ UNCHANGED << appMode, currentMode, currentFileIndex, zoom, hasApiKey, now,
                    overflow, ioVars >>
    /\ UNCHANGED editorVars

\* variant: the rejection is caught nowhere and the finally is missing
DetectRejectedUncaughtMutant(k) ==
    /\ k \in DOMAIN requests
    /\ requests[k].stage = "detect"
    /\ requests' = [requests EXCEPT ![k].stage = "lost"]
    /\ UNCHANGED << appVars, hasApiKey, now, randomCalls, overflow, ioVars >>
    /\ UNCHANGED editorVars

\* detectSensitiveData rejects (the API call or JSON.parse throws, or the
\* reader produced no data): the inner catch
DetectRejected(k) ==
    /\ k \in DOMAIN requests
    /\ requests[k].stage = "detect"
    /\ requests' = RemoveAt(requests, k)
    /\ isProcessing' = FALSE
    /\ notification' = showNotification("detection_failed", "error")
    /\ UNCHANGED << appMode, currentMode, files, currentFileIndex, zoom, hasApiKey,
                    now, randomCalls, overflow, ioVars >>
    /\ UNCHANGED editorVars

-----------------------------------------------------------------------------
(* Export composition *)

\* variant: the mask is not scaled to the canvas
PixelBoxUnscaledMutant(mask, size) ==
    [x |-> mask.x, y |-> mask.y, w |-> mask.w, h |-> mask.h]

\* the arguments of ctx.fillRect for one mask on a canvas of that size, in
\* 1 / Unit of a pixel
PixelBox(mask, size) ==
    [x |-> mask.x * size.width, y |-> mask.y * size.height,
     w |-> mask.w * size.width, h |-> mask.h * size.height]

\* variant: the export is taken from the display, which is scaled by the zoom
\* and carries the rectangle in progress
ComposeDisplayMutant(blob, size, masks) ==
    [kind |-> "png", source |-> blob,
     width |-> (size.width * zoom) \div 10, height |-> (size.height * zoom) \div 10,
     fillStyle |-> "#000000",
     fills |-> [j \in DOMAIN masks |-> PixelBox(masks[j], size)]
               \o (IF currentRect.some THEN << PixelBox(currentRect, size) >> ELSE << >>)]

\* variant: the image is not drawn
ComposeBlankMutant(blob, size, masks) ==
    [kind |-> "png", source |-> << >>, width |-> size.width, height |-> size.height,
     fillStyle |-> "#000000",
     fills |-> [j \in DOMAIN masks |-> PixelBox(masks[j], size)]]

\* the canvas of an export: as large as the image, drawImage(img, 0, 0), then
\* one fillRect per mask with fillStyle '#000000'
Compose(blob, size, masks) ==
    [kind |-> "png", source |-> blob, width |-> size.width, height |-> size.height,
     fillStyle |-> "#000000",
     fills |-> [j \in DOMAIN masks |-> PixelBox(masks[j], size)]]

\* no canvas
NoData ==
    [kind |-> "none", source |-> << >>, width |-> 0, height |-> 0,
     fillStyle |-> "none", fills |-> << >>]
\* the bytes of a file as they were loaded
BlobData(blob) == [NoData EXCEPT !.kind = "blob", !.source = blob]
\* a string
TextData(text) == [NoData EXCEPT !.kind = "text", !.source = << text >>]

\* fillRect paints the rectangle between x and x + w, y and y + h, whichever
\* way round; pixel (i, j) is the square from (i, j) to (i + 1, j + 1)
BoxLeft(b) == Min(b.x, b.x + b.w)
BoxRight(b) == Max(b.x, b.x + b.w)
BoxTop(b) == Min(b.y, b.y + b.h)
BoxBottom(b) == Max(b.y, b.y + b.h)
Covers(b, i, j) ==
    /\ BoxLeft(b) <= i * Unit /\ (i + 1) * Unit <= BoxRight(b)
    /\ BoxTop(b) <= j * Unit /\ (j + 1) * Unit <= BoxBottom(b)
Touches(b, i, j) ==
    /\ BoxLeft(b) < (i + 1) * Unit /\ i * Unit < BoxRight(b)
    /\ BoxTop(b) < (j + 1) * Unit /\ j * Unit < BoxBottom(b)

\* pixel (i, j) of the source image
SourcePixel(blob, i, j) == [paint |-> "image", of |-> blob, x |-> i, y |-> j]

\* pixel (i, j) of a composed canvas: the fill colour where a fill covers the
\* pixel, the fill colour blended over the image where a fill covers a part
\* of it, the image elsewhere
PixelAt(canvas, i, j) ==
    IF \E k \in DOMAIN canvas.fills : Covers(canvas.fills[k], i, j)
    THEN [paint |-> canvas.fillStyle, of |-> << >>, x |-> i, y |-> j]
    ELSE IF \E k \in DOMAIN canvas.fills : Touches(canvas.fills[k], i, j)
         THEN [paint |-> "blend", of |-> canvas.source, x |-> i, y |-> j]
         ELSE SourcePixel(canvas.source, i, j)

-----------------------------------------------------------------------------
(* Export *)

\* history kept with a download: the files it was made from and the view at
\* the time
ExportedFrom(fs) ==
    [files |-> fs, zoom |-> zoom, mode |-> ModeProp, rect |-> currentRect]

\* the export effect of the CanvasEditor, in the render that follows a new
\* exportTrigger; ctx tells whether getContext('2d') yields a context.
\* onExportComplete shows the toast.
ExportEffect(ctx) ==
    IF EditorMounted /\ image # 0 /\ ctx
    THEN /\ downloads' = Append(downloads,
                 [file |-> "desensitized_.png", t |-> now,
                  png |-> Compose(files[image].blob, NaturalSize,
                                  files[currentFileIndex].masks),
                  entries |-> {},
                  of |-> ExportedFrom(files)])
         /\ notification' = showNotification("image_exported", "success")
    ELSE UNCHANGED << downloads, notification >>

\* file.name.replace(/\.[^/.]+$/, ""): the last "." and what follows it are
\* removed when what follows holds no "/"
LastDot(name) ==
    IF \E k \in DOMAIN name : name[k] = "."
    THEN CHOOSE k \in DOMAIN name :
             name[k] = "." /\ \A m \in DOMAIN name : name[m] = "." => m <= k
    ELSE 0
StripExtension(name) ==
    IF /\ LastDot(name) > 0
       /\ LastDot(name) < Len(name)
       /\ \A m \in (LastDot(name) + 1)..Len(name) : name[m] # "/"
    THEN SubSeq(name, 1, LastDot(name) - 1)
    ELSE name

\* variant: an image keeps its name
EntryNameKeptMutant(file) == file.name

\* fileName of handleBatchExport
EntryName(file) ==
    IF file.type = "image"
    THEN StripExtension(file.name) \o << ".", "png" >>
    ELSE file.name

\* folder.file(name, data): an entry of that name is replaced
ZipFile(entries, name, data) ==
    { e \in entries : e.name # name } \cup { [name |-> name, data |-> data] }

\* the manifest entry
Manifest(description) ==
    IF description # ""
    THEN { [name |-> << "requirements", ".", "txt" >>, data |-> TextData(description)] }
    ELSE {}

\* the entries of the files from i on that are no images: processImageForExport
\* returns their blob, and the await yields it before any image has loaded
RECURSIVE PassThrough(_, _, _)
PassThrough(entries, fs, i) ==
    IF i > Len(fs)
    THEN entries
    ELSE PassThrough(IF fs[i].type # "image"
                     THEN ZipFile(entries, EntryName(fs[i]), BlobData(fs[i].blob))
                     ELSE entries,
                     fs, i + 1)

\* a handleBatchExport invocation at its await Promise.all: the files of its
\* closure, the archive so far, and how far each file has come
StartBatch ==
    [files |-> files,
     entries |-> PassThrough(Manifest(projectDesc), files, 1),
     stage |-> [i \in DOMAIN files |->
                   IF files[i].type = "image" THEN "load" ELSE "done"]]

\* every promise of the batch has settled
Settled(b) == \A i \in DOMAIN b.stage : b.stage[i] \in { "done", "failed" }

\* handleBatchExport, the link of the DESENSITIZE panel, up to its first await
handleBatchExport(ctx) ==
    /\ appMode = "DESENSITIZE"
    /\ Len(files) > 0
    /\ IF Len(files) = 1 /\ files[1].type = "image"
       THEN /\ exportTrigger < MaxExports
            /\ exportTrigger' = exportTrigger + 1
            /\ ExportEffect(ctx)
            /\ UNCHANGED << isProcessing, batches >>
       ELSE /\ Len(batches) < MaxBatches
            /\ Len(downloads) < MaxExports
            /\ isProcessing' = TRUE
            /\ notification' = showNotification("generating_archive", "success")
            /\ batches' = Append(batches, StartBatch)
            /\ UNCHANGED << exportTrigger, downloads >>
    /\ UNCHANGED << appMode, currentMode, files, currentFileIndex, zoom, projectDesc,
                    audits >>
    /\ UNCHANGED << envVars, editorVars >>

\* variant: the composition reads the collection the file has when its image
\* has loaded
BatchImageLoadedLatestMutant(k, i, outcome) ==
    /\ k \in DOMAIN batches
    /\ i \in DOMAIN batches[k].files
    /\ batches[k].stage[i] = "load"
    /\ batches[k].files[i].decodes
    /\ batches' = [batches EXCEPT ![k] =
           IF outcome = "blob"
           THEN [@ EXCEPT !.stage[i] = "done",
                          !.entries = ZipFile(@, EntryName(batches[k].files[i]),
                                              Compose(batches[k].files[i].blob, NaturalSize,
                                                      files[i].masks))]
           ELSE [@ EXCEPT !.stage[i] = "failed"]]
    /\ UNCHANGED << appVars, envVars, editorVars, projectDesc, exportTrigger, downloads,
                    audits >>

\* img.onload of processImageForExport for file i of batch k, and the toBlob
\* callback that follows it: the composition is written to the archive, or
\* the promise is rejected and the catch logs it
BatchImageLoaded(k, i, outcome) ==
    /\ k \in DOMAIN batches
    /\ i \in DOMAIN batches[k].files
    /\ batches[k].stage[i] = "load"
    /\ batches[k].files[i].decodes
    /\ batches' = [batches EXCEPT ![k] =
           IF outcome = "blob"
           THEN [@ EXCEPT !.stage[i] = "done",
                          !.entries = ZipFile(@, EntryName(batches[k].files[i]),
                                              Compose(batches[k].files[i].blob, NaturalSize,
                                                      batches[k].files[i].masks))]
           ELSE [@ EXCEPT !.stage[i] = "failed"]]
    /\ UNCHANGED << appVars, envVars, editorVars, projectDesc, exportTrigger, downloads,
                    audits >>

\* variant: the rejection is not caught per file and ends the export
BatchImageErrorAbortsMutant(k, i) ==
    /\ k \in DOMAIN batches
    /\ i \in DOMAIN batches[k].files
    /\ batches[k].stage[i] = "load"
    /\ ~ batches[k].files[i].decodes
    /\ batches' = RemoveAt(batches, k)
    /\ isProcessing' = FALSE
    /\ notification' = showNotification("export_failed", "error")
    /\ UNCHANGED << appMode, currentMode, files, currentFileIndex, zoom, projectDesc,
                    exportTrigger, downloads, audits >>
    /\ UNCHANGED << envVars, editorVars >>

\* img.onerror of processImageForExport
BatchImageError(k, i) ==
    /\ k \in DOMAIN batches
    /\ i \in DOMAIN batches[k].files
    /\ batches[k].stage[i] = "load"
    /\ ~ batches[k].files[i].decodes
    /\ batches' = [batches EXCEPT ![k].stage[i] = "failed"]
    /\ UNCHANGED << appVars, envVars, editorVars, projectDesc, exportTrigger, downloads,
                    audits >>

\* zip.generateAsync resolves: saveAs, the toast, and the finally
BatchGenerated(k) ==
    /\ k \in DOMAIN batches
    /\ Settled(batches[k])
    /\ downloads' = Append(downloads,
           [file |-> "blueprint_sentinel_export.zip", t |-> 0,
            png |-> NoData,
            entries |-> batches[k].entries,
            of |-> ExportedFrom(batches[k].files)])
    /\ notification' = showNotification("batch_export_done", "success")
    /\ isProcessing' = FALSE
    /\ batches' = RemoveAt(batches, k)
    /\ UNCHANGED << appMode, currentMode, files, currentFileIndex, zoom, projectDesc,
                    exportTrigger, audits >>
    /\ UNCHANGED << envVars, editorVars >>

\* zip.generateAsync rejects: the outer catch, and the finally
BatchGenerateFailed(k) ==
    /\ k \in DOMAIN batches
    /\ Settled(batches[k])
    /\ notification' = showNotification("export_failed", "error")
    /\ isProcessing' = FALSE
    /\ batches' = RemoveAt(batches, k)
    /\ UNCHANGED << appMode, currentMode, files, currentFileIndex, zoom, projectDesc,
                    exportTrigger, downloads, audits >>
    /\ UNCHANGED << envVars, editorVars >>

\* variant: the zoom goes down without a floor
ZoomedOutUnclampedMutant(z) == z - 1

\* z => Math.max(z - 0.1, 0.1)
ZoomedOut(z) == Max(z - 1, ZoomMin)

\* z => Math.min(z + 0.1, 5)
ZoomedIn(z) == Min(z + 1, ZoomMax)

\* the zoom buttons of the CanvasEditor, shown once the image is there
ZoomOutButton ==
    /\ CanvasShown
    /\ zoom' = ZoomedOut(zoom)
    /\ UNCHANGED << appMode, currentMode, files, currentFileIndex, isProcessing,
                    notification >>
    /\ UNCHANGED << envVars, editorVars, ioVars >>

ZoomInButton ==
    /\ CanvasShown
    /\ zoom' = ZoomedIn(zoom)
    /\ UNCHANGED << appMode, currentMode, files, currentFileIndex, isProcessing,
                    notification >>
    /\ UNCHANGED << envVars, editorVars, ioVars >>

\* the zoom buttons while the zoom is near its default
ZoomOut == zoom > DefaultZoom - MaxZoomSteps /\ ZoomOutButton
ZoomIn == zoom < DefaultZoom + MaxZoomSteps /\ ZoomInButton

-----------------------------------------------------------------------------
(* Audit *)

\* auditBlueprint: response.text, or the fallback text when it is empty
auditBlueprint(text) == IF text = "" THEN "no_result_retry" ELSE text

\* the stages of performAuditOnIndex that are in flight: the fetch of the
\* file's url, the FileReader, the request to the model
InFlight == { "fetch", "read", "audit" }

\* handleAudit: performAuditOnIndex is called for the current file alone
SingleAuditStages(fs, idx) ==
    [i \in DOMAIN fs |-> IF i = idx THEN "fetch" ELSE "skip"]

\* variant: performAuditOnIndex is called for every image at once
StagesAllAtOnceMutant(fs) ==
    [i \in DOMAIN fs |-> IF fs[i].type = "image" THEN "fetch" ELSE "skip"]

\* handleBatchAudit: imageFiles are the images in list order; the for loop
\* has called performAuditOnIndex for the first of them
BatchAuditStages(fs) ==
    [i \in DOMAIN fs |->
        IF fs[i].type # "image" THEN "skip"
        ELSE IF \A j \in 1..(i - 1) : fs[j].type # "image" THEN "fetch"
        ELSE "waiting"]

\* the item the for loop turns to next, 0 when there is none
NextWaiting(stage) ==
    IF \E i \in DOMAIN stage : stage[i] = "waiting"
    THEN CHOOSE i \in DOMAIN stage :
             stage[i] = "waiting" /\ \A j \in DOMAIN stage : stage[j] = "waiting" => i <= j
    ELSE 0

\* variant: an item that fails ends the loop
SettleCancelsMutant(stage, i, outcome) ==
    IF outcome = "failed"
    THEN [j \in DOMAIN stage |->
             IF j = i THEN "failed" ELSE IF stage[j] = "waiting" THEN "skip" ELSE stage[j]]
    ELSE IF NextWaiting(stage) = 0
         THEN [stage EXCEPT ![i] = outcome]
         ELSE [stage EXCEPT ![i] = outcome, ![NextWaiting(stage)] = "fetch"]

\* the await of item i returns or throws into the catch: the loop calls
\* performAuditOnIndex for the next item
Settle(stage, i, outcome) ==
    IF NextWaiting(stage) = 0
    THEN [stage EXCEPT ![i] = outcome]
    ELSE [stage EXCEPT ![i] = outcome, ![NextWaiting(stage)] = "fetch"]

\* handleAudit, the button of the AUDIT panel for an image, up to its first
\* await
handleAudit ==
    /\ appMode = "AUDIT"
    /\ IsImageMode
    /\ ~ isProcessing
    /\ IF files[currentFileIndex].type # "image"
       THEN /\ notification' = showNotification("audit_unsupported", "error")
            /\ UNCHANGED << isProcessing, audits >>
       ELSE IF ~ hasApiKey
            THEN /\ notification' = showNotification("missing_api_key", "error")
                 /\ UNCHANGED << isProcessing, audits >>
            ELSE /\ Len(audits) < MaxAudits
                 /\ isProcessing' = TRUE
                 /\ audits' = Append(audits,
                        [kind |-> "single",
                         stage |-> SingleAuditStages(files, currentFileIndex)])
                 /\ UNCHANGED notification
    /\ UNCHANGED << appMode, currentMode, files, currentFileIndex, zoom, projectDesc,
                    exportTrigger, downloads, batches >>
    /\ UNCHANGED << envVars, editorVars >>

\* handleBatchAudit, the button the AUDIT panel shows when there are several
\* images, up to its first await: setCurrentFileIndex(item.index) for the
\* first item
handleBatchAudit ==
    /\ appMode = "AUDIT"
    /\ Cardinality({ i \in DOMAIN files : files[i].type = "image" }) > 1
    /\ ~ isProcessing
    /\ IF ~ hasApiKey
       THEN /\ notification' = showNotification("missing_api_key", "error")
            /\ UNCHANGED << isProcessing, audits, currentFileIndex, editorVars >>
       ELSE /\ Len(audits) < MaxAudits
            /\ isProcessing' = TRUE
            /\ notification' = showNotification("batch_audit_started", "success")
            /\ audits' = Append(audits,
                   [kind |-> "batch", stage |-> BatchAuditStages(files)])
            /\ currentFileIndex' =
                   CHOOSE i \in DOMAIN files : BatchAuditStages(files)[i] = "fetch"
            /\ Rerender(EditorMounted, currentFileIndex, files, currentFileIndex')
    /\ UNCHANGED << appMode, currentMode, files, zoom, projectDesc, exportTrigger,
                    downloads, batches >>
    /\ UNCHANGED envVars

\* fetch(file.url) and response.blob() succeed: reader.readAsDataURL
AuditFetched(k, i) ==
    /\ k \in DOMAIN audits
    /\ i \in DOMAIN audits[k].stage
    /\ audits[k].stage[i] = "fetch"
    /\ audits' = [audits EXCEPT ![k].stage[i] = "read"]
    /\ UNCHANGED << appVars, envVars, editorVars, projectDesc, exportTrigger, downloads,
                    batches >>

\* reader.onloadend: auditBlueprint is called and awaited
AuditReadEnd(k, i) ==
    /\ k \in DOMAIN audits
    /\ i \in DOMAIN audits[k].stage
    /\ audits[k].stage[i] = "read"
    /\ audits' = [audits EXCEPT ![k].stage[i] = "audit"]
    /\ UNCHANGED << appVars, envVars, editorVars, projectDesc, exportTrigger, downloads,
                    batches >>

\* the promise of performAuditOnIndex for item i of invocation k has settled
\* and fs are the files then: handleAudit shows its toast and ends; the loop
\* of handleBatchAudit selects the next item and audits it, or ends
AuditSettles(k, i, outcome, fs) ==
    /\ files' = fs
    /\ IF audits[k].kind = "single"
       THEN /\ audits' = RemoveAt(audits, k)
            /\ isProcessing' = FALSE
            /\ notification' = IF outcome = "done"
                               THEN showNotification("audit_done", "success")
                               ELSE showNotification("audit_failed", "error")
            /\ UNCHANGED << currentFileIndex, editorVars >>
       ELSE IF \E j \in DOMAIN audits[k].stage :
                   Settle(audits[k].stage, i, outcome)[j] \in InFlight
            THEN /\ audits' = [audits EXCEPT ![k].stage = Settle(@, i, outcome)]
                 /\ currentFileIndex' =
                        IF NextWaiting(audits[k].stage) # 0
                        THEN NextWaiting(audits[k].stage)
                        ELSE currentFileIndex
                 /\ Rerender(EditorMounted, currentFileIndex, fs, currentFileIndex')
                 /\ UNCHANGED << isProcessing, notification >>
            ELSE /\ audits' = RemoveAt(audits, k)
                 /\ isProcessing' = FALSE
                 /\ notification' = showNotification("batch_audit_done", "success")
                 /\ UNCHANGED << currentFileIndex, editorVars >>
    /\ UNCHANGED << appMode, currentMode, zoom, projectDesc, exportTrigger, downloads,
                    batches >>
    /\ UNCHANGED envVars

\* auditBlueprint resolves with the text of the response: setFiles stores the
\* result with the file of that index
AuditResolved(k, i, text) ==
    /\ k \in DOMAIN audits
    /\ i \in DOMAIN audits[k].stage
    /\ audits[k].stage[i] = "audit"
    /\ AuditSettles(k, i, "done",
                    [files EXCEPT ![i].auditResult = auditBlueprint(text)])

\* fetch or response.blob() throws
AuditFetchFailed(k, i) ==
    /\ k \in DOMAIN audits
    /\ i \in DOMAIN audits[k].stage
    /\ audits[k].stage[i] = "fetch"
    /\ AuditSettles(k, i, "failed", files)

\* reader.onerror
AuditReadFailed(k, i) ==
    /\ k \in DOMAIN audits
    /\ i \in DOMAIN audits[k].stage
    /\ audits[k].stage[i] = "read"
    /\ AuditSettles(k, i, "failed", files)

\* auditBlueprint throws
AuditRejected(k, i) ==
    /\ k \in DOMAIN audits
    /\ i \in DOMAIN audits[k].stage
    /\ audits[k].stage[i] = "audit"
    /\ AuditSettles(k, i, "failed", files)

-----------------------------------------------------------------------------
(* Environment *)

\* a millisecond passes
Tick ==
    /\ now < MaxClock
    /\ now' = now + 1
    /\ UNCHANGED << appVars, hasApiKey, requests, randomCalls, overflow, ioVars >>
    /\ UNCHANGED editorVars

\* setTimeout(() => setNotification(null), 3000) of showNotification
NotificationExpire ==
    /\ notification # NoNotification
    /\ notification' = NoNotification
    /\ UNCHANGED << appMode, currentMode, files, currentFileIndex, zoom, isProcessing,
                    hasApiKey, now, requests, randomCalls, overflow, ioVars >>
    /\ UNCHANGED editorVars

-----------------------------------------------------------------------------
(* Specifications *)

\* the project, started with no description, the view and the toolbar's mode
\* switches
Shell(projects) ==
    \/ \E loadedFiles \in projects : ProjectStart("", loadedFiles)
    \/ \E idx \in 1..2 : SelectFile(idx)
    \/ \E m \in {"DESENSITIZE", "AUDIT"} : SetAppMode(m)
    \/ \E m \in {"PAN", "DRAW"} : SetMode(m)
    \/ \E l \in loads : ImageOnLoad(l)
    \/ NotificationExpire

Detection ==
    \/ AutoDetect
    \/ \E k \in 1..MaxRequests : DetectFetched(k)
    \/ \E k \in 1..MaxRequests : DetectFetchFailed(k)
    \/ \E k \in 1..MaxRequests : DetectReadEnd(k)
    \/ \E k \in 1..MaxRequests, results \in DetectorResults : DetectResolved(k, results)
    \/ \E k \in 1..MaxRequests : DetectRejected(k)

\* the whole application, the mask editor taken a drag at a time
Next ==
    \/ Shell(SingleImageProjects)
    \/ \E l \in loads : ImageOnError(l)
    \/ \E a, b \in Diagonal : DrawGesture(a, b)
    \/ Clear
    \/ ApplyMasksToAll
    \/ Detection
    \/ Tick

Spec == Init /\ [][Next]_vars

\* a project of two images, on a clock that stands still
NextProject ==
    \/ Shell(TwoImageProjects)
    \/ \E a \in UpperLeft, b \in Diagonal : DrawGesture(a, b)
    \/ Clear
    \/ ApplyMasksToAll
    \/ Detection

SpecProject == Init /\ [][NextProject]_vars

\* the mask editor in a window the canvas overflows, the pointer moving
\* over all the points
InitEditor == Constructed(NarrowWindow)

NextEditor ==
    \/ Shell(EditorProjects)
    \/ \E l \in loads : ImageOnError(l)
    \/ MouseDown(Points)
    \/ MouseMove(Points)
    \/ handleMouseUp
    \/ handleMouseLeave
    \/ Clear
    \/ Tick

SpecEditor == InitEditor /\ [][NextEditor]_vars

\* the export of a project of one image in any view of the editor: zoomed, in
\* either tool mode, a rectangle in progress or not
ExportProjects == { << ImageFile >> }
DragEnd == { [x |-> 235, y |-> 430] }

NextExport ==
    \/ \E loadedFiles \in ExportProjects : ProjectStart("", loadedFiles)
    \/ \E m \in {"PAN", "DRAW"} : SetMode(m)
    \/ \E l \in loads : ImageOnLoad(l)
    \/ MouseDown(UpperLeft)
    \/ MouseMove(DragEnd)
    \/ handleMouseUp
    \/ ZoomIn
    \/ ZoomOut
    \/ Clear
    \/ \E ctx \in BOOLEAN : handleBatchExport(ctx)

SpecExport == Init /\ [][NextExport]_vars

\* the batch export: two images whose names differ in the extension, two pages
\* of one PDF, an image beside a 3D model, an image beside one that does not
\* decode, and a table alone; with a description or without
PdfName == << "doc", ".", "pdf" >>
BatchProjects ==
    { << ImageFile, PngImageFile >>,
      << PdfPage(PdfName, "1"), PdfPage(PdfName, "2") >>,
      << ImageFile, ModelFile >>,
      << CorruptImageFile, ImageFile >>,
      << TableFile >> }
Descriptions == { "", "requirements" }
\* how a loaded image fares in processImageForExport: it is composed and
\* encoded, getContext yields null, or toBlob yields null
Outcomes == { "blob", "no_context", "no_blob" }

NextBatch ==
    \/ \E d \in Descriptions, loadedFiles \in BatchProjects : ProjectStart(d, loadedFiles)
    \/ \E idx \in 1..2 : SelectFile(idx)
    \/ \E m \in {"PAN", "DRAW"} : SetMode(m)
    \/ \E l \in loads : ImageOnLoad(l)
    \/ \E l \in loads : ImageOnError(l)
    \/ \E a \in UpperLeft, b \in Diagonal : DrawGesture(a, b)
    \/ \E ctx \in BOOLEAN : handleBatchExport(ctx)
    \/ \E k \in 1..MaxBatches, i \in 1..2, outcome \in Outcomes :
           BatchImageLoaded(k, i, outcome)
    \/ \E k \in 1..MaxBatches, i \in 1..2 : BatchImageError(k, i)
    \/ \E k \in 1..MaxBatches : BatchGenerated(k)
    \/ \E k \in 1..MaxBatches : BatchGenerateFailed(k)

SpecBatch == Init /\ [][NextBatch]_vars

\* the audits of a project of three images, and of two images with a 3D model
\* between them
AuditProjects ==
    { << ImageFile, PngImageFile, PdfPage(PdfName, "1") >>,
      << ImageFile, ModelFile, PngImageFile >> }
\* response.text of the model
AuditTexts == { "report", "" }

NextAudit ==
    \/ \E loadedFiles \in AuditProjects : ProjectStart("", loadedFiles)
    \/ \E idx \in 1..3 : SelectFile(idx)
    \/ \E m \in {"DESENSITIZE", "AUDIT"} : SetAppMode(m)
    \/ \E l \in loads : ImageOnLoad(l)
    \/ handleAudit
    \/ handleBatchAudit
    \/ \E k \in 1..MaxAudits, i \in 1..3 : AuditFetched(k, i)
    \/ \E k \in 1..MaxAudits, i \in 1..3 : AuditReadEnd(k, i)
    \/ \E k \in 1..MaxAudits, i \in 1..3, text \in AuditTexts : AuditResolved(k, i, text)
    \/ \E k \in 1..MaxAudits, i \in 1..3 : AuditFetchFailed(k, i)
    \/ \E k \in 1..MaxAudits, i \in 1..3 : AuditReadFailed(k, i)
    \/ \E k \in 1..MaxAudits, i \in 1..3 : AuditRejected(k, i)

SpecAudit == Init /\ [][NextAudit]_vars

\* the zoom over its whole range, on a project of two images
NextZoom ==
    \/ \E loadedFiles \in TwoImageProjects : ProjectStart("", loadedFiles)
    \/ \E idx \in 1..2 : SelectFile(idx)
    \/ \E l \in loads : ImageOnLoad(l)
    \/ ZoomInButton
    \/ ZoomOutButton

SpecZoom == Init /\ [][NextZoom]_vars

\* a project whose second image cannot be decoded, or whose only image cannot
DecodeProjects ==
    { << ImageFile, CorruptImageFile >>,
      << CorruptImageFile >> }

NextDecode ==
    \/ Shell(DecodeProjects)
    \/ \E l \in loads : ImageOnError(l)
    \/ \E a, b \in Diagonal : DrawGesture(a, b)

SpecDecode == Init /\ [][NextDecode]_vars

\* a drag on a project of two images while the active file changes: by a
\* selection in the file list, or by the batch audit moving on
NextSwitch ==
    \/ Shell(TwoImageProjects)
    \/ MouseDown(UpperLeft)
    \/ MouseMove(DragEnd)
    \/ handleMouseUp
    \/ handleBatchAudit
    \/ \E k \in 1..MaxAudits, i \in 1..2 : AuditFetched(k, i)
    \/ \E k \in 1..MaxAudits, i \in 1..2 : AuditReadEnd(k, i)
    \/ \E k \in 1..MaxAudits, i \in 1..2 : AuditResolved(k, i, "report")

SpecSwitch == Init /\ [][NextSwitch]_vars

\* the operations that raise and lower the processing flag, on a project of
\* two images, and of an image beside one that does not decode: detection,
\* single and batch audit, batch export, each collaborator call succeeding or
\* failing
BusyProjects ==
    { << ImageFile, PngImageFile >>,
      << ImageFile, CorruptImageFile >> }

NextBusy ==
    \/ \E loadedFiles \in BusyProjects : ProjectStart("", loadedFiles)
    \/ \E m \in {"DESENSITIZE", "AUDIT"} : SetAppMode(m)
    \/ AutoDetect
    \/ \E k \in 1..MaxRequests : DetectFetched(k)
    \/ \E k \in 1..MaxRequests : DetectFetchFailed(k)
    \/ \E k \in 1..MaxRequests : DetectReadEnd(k)
    \/ \E k \in 1..MaxRequests : DetectResolved(k, << >>)
    \/ \E k \in 1..MaxRequests : DetectRejected(k)
    \/ handleAudit
    \/ handleBatchAudit
    \/ \E k \in 1..MaxAudits, i \in 1..2 : AuditFetched(k, i)
    \/ \E k \in 1..MaxAudits, i \in 1..2 : AuditReadEnd(k, i)
    \/ \E k \in 1..MaxAudits, i \in 1..2 : AuditResolved(k, i, "report")
    \/ \E k \in 1..MaxAudits, i \in 1..2 : AuditFetchFailed(k, i)
    \/ \E k \in 1..MaxAudits, i \in 1..2 : AuditReadFailed(k, i)
    \/ \E k \in 1..MaxAudits, i \in 1..2 : AuditRejected(k, i)
    \/ handleBatchExport(TRUE)
    \/ \E k \in 1..MaxBatches, i \in 1..2, outcome \in Outcomes :
           BatchImageLoaded(k, i, outcome)
    \/ \E k \in 1..MaxBatches, i \in 1..2 : BatchImageError(k, i)
    \/ \E k \in 1..MaxBatches : BatchGenerated(k)
    \/ \E k \in 1..MaxBatches : BatchGenerateFailed(k)

SpecBusy == Init /\ [][NextBusy]_vars

\* every collaborator call that is outstanding settles, one way or the other,
\* and its continuation runs: the fetch, the file read and the detector of
\* detection k; the fetch, the file read and the auditor of the item audit k
\* is at; the image loads and encodings and the archive generation of batch
\* export k
DetectionProceeds(k) ==
    \/ DetectFetched(k)
    \/ DetectFetchFailed(k)
    \/ DetectReadEnd(k)
    \/ DetectResolved(k, << >>)
    \/ DetectRejected(k)
AuditProceeds(k) ==
    \E i \in 1..2 :
        \/ AuditFetched(k, i)
        \/ AuditFetchFailed(k, i)
        \/ AuditReadEnd(k, i)
        \/ AuditReadFailed(k, i)
        \/ AuditResolved(k, i, "report")
        \/ AuditRejected(k, i)
ExportProceeds(k) ==
    \/ \E i \in 1..2, outcome \in Outcomes : BatchImageLoaded(k, i, outcome)
    \/ \E i \in 1..2 : BatchImageError(k, i)
    \/ BatchGenerated(k)
    \/ BatchGenerateFailed(k)

SpecBusyFair ==
    /\ SpecBusy
    /\ \A k \in 1..MaxRequests : WF_vars(DetectionProceeds(k))
    /\ \A k \in 1..MaxAudits : WF_vars(AuditProceeds(k))
    /\ \A k \in 1..MaxBatches : WF_vars(ExportProceeds(k))

\* the mask store on its own: a project of two images and a 3D model in which
\* any of the images has been masked and audited before, any file is the
\* active one, and a detection request of either image may await the detector
StoreProject == << ImageFile, PngImageFile, ModelFile >>
StoredMask ==
    [id |-> [kind |-> "manual", t |-> 0, r |-> 0],
     x |-> 30000, y |-> 30000, w |-> 10000, h |-> 10000,
     type |-> "manual", label |-> NoLabel]
WorkedFile(f) ==
    [NewProjectFile(f) EXCEPT !.masks = << StoredMask >>, !.auditResult = "report"]

InitStore ==
    /\ appMode = "DESENSITIZE"
    /\ currentMode = "DRAW"
    /\ \E worked \in SUBSET { 1, 2 } :
           files = [i \in DOMAIN StoreProject |->
                       IF i \in worked THEN WorkedFile(StoreProject[i])
                       ELSE NewProjectFile(StoreProject[i])]
    /\ currentFileIndex \in DOMAIN StoreProject
    /\ zoom = DefaultZoom
    /\ requests \in { << >> } \cup { << [idx |-> i, stage |-> "detect"] >> : i \in { 1, 2 } }
    /\ isProcessing = (requests # << >>)
    /\ notification = NoNotification
    /\ hasApiKey = TRUE
    /\ now = 0
    /\ image = IF files[currentFileIndex].type = "image" THEN currentFileIndex ELSE 0
    /\ imageSize = IF image # 0 THEN NaturalSize ELSE NoImageSize
    /\ currentRect = NoRect
    /\ dragRef = InitialDragRef
    /\ scroll = [left |-> 0, top |-> 0]
    /\ loads = {}
    /\ randomCalls = 0
    /\ overflow = FittingWindow
    /\ drag = NoDrag
    /\ projectDesc = ""
    /\ exportTrigger = 0
    /\ downloads = << >>
    /\ batches = << >>
    /\ audits = << >>

NextStore ==
    \/ \E a, b \in Diagonal : DrawGesture(a, b)
    \/ Clear
    \/ ApplyMasksToAll
    \/ \E k \in 1..MaxRequests, results \in DetectorResults : DetectResolved(k, results)

SpecStore == InitStore /\ [][NextStore]_vars

\* the detection reconciler on its own: a project of one image whose
\* detection request awaits the detector, which answers with any one box
ReconcilerValues == { 0, Unit, 2 * Unit, 500 * Unit }
NormalizedBox == << 10000, 20000, 40000, 60000 >>
ReconcilerBoxes ==
    { << ymin, xmin, ymax, xmax >> :
        ymin \in ReconcilerValues, xmin \in ReconcilerValues,
        ymax \in ReconcilerValues, xmax \in ReconcilerValues }
    \cup { ScaleBox, NormalizedBox }

InitReconcile ==
    /\ appMode = "DESENSITIZE"
    /\ currentMode = "PAN"
    /\ files = << NewProjectFile(ImageFile) >>
    /\ currentFileIndex = 1
    /\ zoom = DefaultZoom
    /\ isProcessing = TRUE
    /\ notification = NoNotification
    /\ hasApiKey = TRUE
    /\ now = 0
    /\ image = 1
    /\ imageSize = NaturalSize
    /\ currentRect = NoRect
    /\ dragRef = InitialDragRef
    /\ scroll = [left |-> 0, top |-> 0]
    /\ loads = {}
    /\ requests = << [idx |-> 1, stage |-> "detect"] >>
    /\ randomCalls = 0
    /\ overflow = FittingWindow
    /\ drag = NoDrag
    /\ projectDesc = ""
    /\ exportTrigger = 0
    /\ downloads = << >>
    /\ batches = << >>
    /\ audits = << >>

\* the detector answers the request with the one box b
ResolvesBox(b) == DetectResolved(1, << [label |-> "title", box_2d |-> b] >>)

NextReconcile == \E b \in ReconcilerBoxes : ResolvesBox(b)

SpecReconcile == InitReconcile /\ [][NextReconcile]_vars

\* the export composition on its own: the image of the reconciler's project,
\* exported with the mask that a box leaves, or with none; the boxes are those
\* whose mask reaches no further than two image sizes, which keeps the pixel
\* arithmetic within 32-bit integers
ComposeBoxes ==
    { b \in ReconcilerBoxes :
        /\ Abs(ReconcileBox(b).x) <= 2 * Unit /\ Abs(ReconcileBox(b).w) <= 2 * Unit
        /\ Abs(ReconcileBox(b).y) <= 2 * Unit /\ Abs(ReconcileBox(b).h) <= 2 * Unit }

NextCompose ==
    \/ \E b \in ComposeBoxes : ResolvesBox(b)
    \/ \E ctx \in BOOLEAN : handleBatchExport(ctx)

SpecCompose == InitReconcile /\ [][NextCompose]_vars

-----------------------------------------------------------------------------
(* Properties of the mask editor, under SpecEditor *)

\* C1: when the pointer-up of a draw drag from anchor A to last position B
\* commits, exactly one rectangle is appended to the end of the active file's
\* collection; its origin is manual, x = min(A.x, B.x), y = min(A.y, B.y),
\* w = |B.x - A.x| and h = |B.y - A.y|; the rectangles before it and the other
\* files are as they were
C1_DrawCommit ==
    [][ (handleMouseUp /\ dragRef.isDown /\ drag.kind = "draw" /\ files' # files) =>
            LET before == files[currentFileIndex].masks
                after == files'[currentFileIndex].masks
                m == after[Len(after)]
            IN /\ Len(after) = Len(before) + 1
               /\ SubSeq(after, 1, Len(before)) = before
               /\ m.type = "manual"
               /\ m.x = Min(drag.a.x, drag.b.x)
               /\ m.y = Min(drag.a.y, drag.b.y)
               /\ m.w = Abs(drag.b.x - drag.a.x)
               /\ m.h = Abs(drag.b.y - drag.a.y)
               /\ \A i \in DOMAIN files : i # currentFileIndex => files'[i] = files[i]
      ]_vars

\* a drag from the lower right corner up and left to the upper left corner has
\* been released and its rectangle is the last of the active collection
C1_Witness ==
    /\ CanvasShown
    /\ drag.kind = "draw" /\ drag.ended = "up"
    /\ drag.a = [x |-> 11000, y |-> 21000]
    /\ drag.b = [x |-> 10000, y |-> 20000]
    /\ Len(files[currentFileIndex].masks) > 0
    /\ LET m == files[currentFileIndex].masks[Len(files[currentFileIndex].masks)]
       IN m.type = "manual" /\ m.x = 10000 /\ m.y = 20000 /\ m.w = 1000 /\ m.h = 1000

\* C2: the pointer-up of a draw drag whose final |w| or |h| does not exceed
\* 0.005 leaves every mask collection as it was, and a pointer-up commits only
\* an in-progress rectangle whose |w| and |h| both exceed 0.005
C2_SmallDragCommitsNothing ==
    [][ /\ (handleMouseUp /\ dragRef.isDown /\ drag.kind = "draw"
              /\ (\/ Abs(drag.b.x - drag.a.x) <= MinSize
                  \/ Abs(drag.b.y - drag.a.y) <= MinSize)) => files' = files
        /\ (handleMouseUp /\ files' # files) =>
              /\ currentRect.some
              /\ Abs(currentRect.w) > MinSize
              /\ Abs(currentRect.h) > MinSize
      ]_vars

\* a draw drag whose width is 0.005 exactly and whose height exceeds it has
\* been released, and the active collection is empty
C2_Witness ==
    /\ CanvasShown
    /\ drag.kind = "draw" /\ drag.ended = "up"
    /\ Abs(drag.b.x - drag.a.x) = MinSize /\ Abs(drag.b.y - drag.a.y) > MinSize
    /\ files[currentFileIndex].masks = << >>

\* C3: a pointer-leave during a drag ends the drag, discards the in-progress
\* rectangle, commits nothing and leaves the scroll offsets where the pan put
\* them; a pointer-up that follows it with no pointer-down between commits
\* nothing either
C3_LeaveCancels ==
    [][ /\ (handleMouseLeave /\ dragRef.isDown) =>
              /\ ~ dragRef'.isDown
              /\ currentRect' = NoRect
              /\ files' = files
              /\ scroll' = scroll
        /\ (handleMouseUp /\ drag.ended = "leave") =>
              /\ files' = files
              /\ currentRect' = NoRect
      ]_vars

\* the pointer left during a draw drag that had a rectangle of committable
\* size in progress, in a view an earlier pan has scrolled; nothing is stored
C3_Witness ==
    /\ CanvasShown
    /\ drag.kind = "draw" /\ drag.ended = "leave"
    /\ Abs(drag.b.x - drag.a.x) > MinSize /\ Abs(drag.b.y - drag.a.y) > MinSize
    /\ scroll.left > 0
    /\ ~ dragRef.isDown
    /\ currentRect = NoRect
    /\ files[currentFileIndex].masks = << >>

\* C4: a pointer-down received while a drag is in progress is ignored: the
\* recorded start position and scroll offsets, the anchor and the in-progress
\* rectangle stay as they are
C4_NoNestedDrags ==
    [][ ((\E p \in Points : handleMouseDown(ClientPos(p))) /\ dragRef.isDown) =>
            /\ dragRef' = dragRef
            /\ currentRect' = currentRect
      ]_vars

\* a draw drag has a rectangle in progress: the state a second pointer-down
\* meets
C4_Witness ==
    /\ CanvasShown
    /\ dragRef.isDown
    /\ ModeProp = "DRAW"
    /\ currentRect.some /\ currentRect.w # 0 /\ currentRect.h # 0

-----------------------------------------------------------------------------
(* Properties of the mask store, under Spec *)

\* C5: every rectangle stored in any mask collection has w > 0 and h > 0,
\* rectangles made from detector boxes whose max is not above its min included
C5_PositiveExtent ==
    \A i \in DOMAIN files :
        \A j \in DOMAIN files[i].masks :
            files[i].masks[j].w > 0 /\ files[i].masks[j].h > 0

\* C6: no two rectangles of one mask collection have the same id
C6_UniqueIds ==
    \A i \in DOMAIN files :
        \A j, k \in DOMAIN files[i].masks :
            files[i].masks[j].id = files[i].masks[k].id => j = k

-----------------------------------------------------------------------------
(* Properties of the detection reconciler, under SpecReconcile *)

\* C7: a box [ymin, xmin, ymax, xmax] gives x from xmin, y from ymin, w from
\* xmax - xmin and h from ymax - ymin, each of the four divided by 1000 exactly
\* when that value itself exceeds 1; [100, 200, 400, 600] gives x = 0.2,
\* y = 0.1, w = 0.4, h = 0.3 and [0.1, 0.2, 0.4, 0.6] gives the same
C7_PerComponent ==
    [][ \A b \in ReconcilerBoxes :
            ResolvesBox(b) =>
                LET m == files'[1].masks[Len(files'[1].masks)]
                    w == b[4] - b[2]
                    h == b[3] - b[1]
                IN /\ IF b[2] > Unit THEN m.x * DetectorScale = b[2] ELSE m.x = b[2]
                   /\ IF b[1] > Unit THEN m.y * DetectorScale = b[1] ELSE m.y = b[1]
                   /\ IF w > Unit THEN m.w * DetectorScale = w ELSE m.w = w
                   /\ IF h > Unit THEN m.h * DetectorScale = h ELSE m.h = h
                   /\ b \in { ScaleBox, NormalizedBox } =>
                         m.x = 20000 /\ m.y = 10000 /\ m.w = 40000 /\ m.h = 30000
      ]_vars

\* the box [1, 1, 500, 500] has been reconciled: its origin, which does not
\* exceed 1, is kept and its deltas are divided
C7_Witness ==
    /\ requests = << >>
    /\ Len(files[1].masks) = 1
    /\ files[1].masks[1].type = "ai"
    /\ files[1].masks[1].x = Unit
    /\ files[1].masks[1].y = Unit
    /\ files[1].masks[1].w = 49900
    /\ files[1].masks[1].h = 49900

\* C8: when any of the four coordinates of a box exceeds 1, the x, y, w and h
\* of its rectangle are xmin / 1000, ymin / 1000, (xmax - xmin) / 1000 and
\* (ymax - ymin) / 1000, also where an origin coordinate or a delta equals 1
C8_PerTuple ==
    [][ \A b \in ReconcilerBoxes :
            (ResolvesBox(b) /\ \E i \in 1..4 : b[i] > Unit) =>
                LET m == files'[1].masks[Len(files'[1].masks)]
                IN /\ m.x * DetectorScale = b[2]
                   /\ m.y * DetectorScale = b[1]
                   /\ m.w * DetectorScale = b[4] - b[2]
                   /\ m.h * DetectorScale = b[3] - b[1]
      ]_vars

-----------------------------------------------------------------------------
(* Properties of detection, under SpecProject and Spec *)

\* C9: a detection that resolves with n >= 1 results appends n rectangles of
\* origin detected to the end of the target file's collection, in result order
\* and with the results' labels; the rectangles that were there stay as they
\* were and in order, and no other file changes
C9_DetectionAppends ==
    [][ \A k \in DOMAIN requests :
          \A results \in DetectorResults :
            (DetectResolved(k, results) /\ Len(results) >= 1) =>
                LET target == requests[k].idx
                    before == files[target].masks
                    after == files'[target].masks
                IN /\ Len(after) = Len(before) + Len(results)
                   /\ SubSeq(after, 1, Len(before)) = before
                   /\ \A j \in DOMAIN results :
                         /\ after[Len(before) + j].type = "ai"
                         /\ after[Len(before) + j].label = results[j].label
                   /\ \A i \in DOMAIN files : i # target => files'[i] = files[i]
      ]_vars

\* a detected rectangle follows a manual one in the first file's collection,
\* no request is left, and the second file has its own manual rectangle
C9_Witness ==
    /\ Len(files) = 2
    /\ requests = << >>
    /\ notification.msg = "detected"
    /\ Len(files[1].masks) = 2
    /\ files[1].masks[1].type = "manual"
    /\ files[1].masks[2].type = "ai"
    /\ files[1].masks[2].label = "title"
    /\ Len(files[2].masks) = 1
    /\ files[2].masks[1].type = "manual"

\* C10: a detection that fails is reported as an error, which the report of a
\* detection without results is not; it leaves every mask collection as it
\* was and its request is gone with no request issued in its place; a
\* detection that resolves with an empty list is reported as a success and
\* leaves every mask collection as it was
C10_DetectionFailure ==
    [][ \A k \in DOMAIN requests :
          /\ (DetectRejected(k) \/ DetectFetchFailed(k)) =>
                /\ notification'.type = "error"
                /\ files' = files
                /\ requests' = RemoveAt(requests, k)
                /\ ~ isProcessing'
          /\ DetectResolved(k, << >>) =>
                /\ notification'.type = "success"
                /\ files' = files
      ]_vars

\* the detector has failed on a file that has a rectangle, which is still
\* there
C10_Witness ==
    /\ notification.msg = "detection_failed"
    /\ requests = << >>
    /\ ~ isProcessing
    /\ \E i \in DOMAIN files : Len(files[i].masks) > 0

-----------------------------------------------------------------------------
(* Properties of copy-to-all, under SpecProject *)

\* C11: a confirmed copy-to-all from a non-empty collection leaves every image
\* file with a collection equal to the source's, in content and order; every
\* other step changes the collection of one file at most, so an append or a
\* clear on one of the copies leaves the source and the other copies as they
\* were
C11_CopyToAll ==
    [][ /\ (handleApplyMasksToAll(TRUE) /\ Len(files[currentFileIndex].masks) > 0) =>
              \A i \in DOMAIN files :
                  files[i].type = "image" =>
                      files'[i].masks = files[currentFileIndex].masks
        /\ (appMode # "WELCOME" /\ ~ handleApplyMasksToAll(TRUE)) =>
              Cardinality({ i \in DOMAIN files : files'[i].masks # files[i].masks }) <= 1
      ]_vars

\* the toast of a copy is still shown, the first file has had a rectangle
\* appended since, and the second file holds the copy alone
C11_Witness ==
    /\ Len(files) = 2
    /\ notification.msg = "masks_applied"
    /\ Len(files[1].masks) = 2
    /\ Len(files[2].masks) = 1
    /\ files[1].masks[1] = files[2].masks[1]
    /\ files[1].masks[2].type = "manual"

-----------------------------------------------------------------------------
(* Properties of the export, under SpecExport *)

\* C12: the exported image has the intrinsic width and height of the source,
\* and it is what the image and the committed masks of the export yield in
\* any other state, whatever the zoom, the tool mode and the rectangle in
\* progress are there
C12_ExportIgnoresView ==
    \A n \in DOMAIN downloads :
        /\ downloads[n].png.width = NaturalSize.width
        /\ downloads[n].png.height = NaturalSize.height
        /\ downloads[n].png = Compose(downloads[n].of.files[1].blob, NaturalSize,
                                      downloads[n].of.files[1].masks)

\* an image with a committed mask was exported zoomed in, in draw mode, with a
\* rectangle in progress; the view has changed in all three since
C12_Witness ==
    /\ Len(downloads) = 1
    /\ Len(downloads[1].of.files[1].masks) = 1
    /\ downloads[1].of.zoom = DefaultZoom + 1
    /\ downloads[1].of.mode = "DRAW"
    /\ downloads[1].of.rect.some
    /\ zoom = DefaultZoom - 1
    /\ ModeProp = "PAN"
    /\ currentRect = NoRect

\* C14: the export of a single image whose mask collection is empty has the
\* size of the source, and each of its pixels is the pixel of the source at
\* the same place
C14_NoMasksNoChange ==
    \A n \in DOMAIN downloads :
        Len(downloads[n].of.files[1].masks) = 0 =>
            /\ downloads[n].png.width = NaturalSize.width
            /\ downloads[n].png.height = NaturalSize.height
            /\ \A i \in { 0, 200, 234, NaturalSize.width - 1 },
                  j \in { 0, 400, 429, NaturalSize.height - 1 } :
                    PixelAt(downloads[n].png, i, j) =
                        SourcePixel(downloads[n].of.files[1].blob, i, j)

\* an image that never had a mask was exported, with a rectangle in progress
C14_Witness ==
    /\ Len(downloads) = 1
    /\ downloads[1].of.files[1].masks = << >>
    /\ downloads[1].of.rect.some
    /\ files[1].masks = << >>
    /\ notification.msg = "image_exported"

-----------------------------------------------------------------------------
(* Properties of the export composition, under SpecCompose *)

\* C13: in an exported image of width W and height H, every pixel that lies
\* inside the box from (x * W, y * H) to ((x + w) * W, (y + h) * H) of a
\* committed mask has the opaque fill colour and is not the source pixel; with
\* the mask (0, 0, 1, 1) that is every pixel of the image
C13_MaskedPixelsRedacted ==
    \A n \in DOMAIN downloads :
        \A k \in DOMAIN downloads[n].of.files[1].masks :
            LET m == downloads[n].of.files[1].masks[k]
                W == downloads[n].png.width
                H == downloads[n].png.height
                Inside(i, j) ==
                    /\ Min(m.x, m.x + m.w) * W <= i * Unit
                    /\ (i + 1) * Unit <= Max(m.x, m.x + m.w) * W
                    /\ Min(m.y, m.y + m.h) * H <= j * Unit
                    /\ (j + 1) * Unit <= Max(m.y, m.y + m.h) * H
            IN  /\ W = NaturalSize.width
                /\ H = NaturalSize.height
                /\ \A i \in { 0, 3, 4, 999, 1000, W - 1 }, j \in { 0, 3, 4, 999, 1000, H - 1 } :
                      /\ Inside(i, j) =>
                            /\ PixelAt(downloads[n].png, i, j).paint = "#000000"
                            /\ PixelAt(downloads[n].png, i, j) #
                                   SourcePixel(downloads[n].of.files[1].blob, i, j)
                      /\ (m.x = 0 /\ m.y = 0 /\ m.w = Unit /\ m.h = Unit) => Inside(i, j)

\* an image was exported with the mask (0, 0, 1, 1)
C13_Witness ==
    /\ Len(downloads) = 1
    /\ Len(downloads[1].of.files[1].masks) = 1
    /\ downloads[1].of.files[1].masks[1].x = 0
    /\ downloads[1].of.files[1].masks[1].y = 0
    /\ downloads[1].of.files[1].masks[1].w = Unit
    /\ downloads[1].of.files[1].masks[1].h = Unit
    /\ PixelAt(downloads[1].png, 0, 0).paint = "#000000"
    /\ PixelAt(downloads[1].png, 1999, 1999).paint = "#000000"

-----------------------------------------------------------------------------
(* Properties of the batch export, under SpecBatch *)

\* C15: in a batch export any two files that were processed with success have
\* different entry names, and none of them has the name of the manifest
C15_DistinctEntryNames ==
    \A k \in DOMAIN batches :
        \A i, j \in DOMAIN batches[k].files :
            (batches[k].stage[i] = "done" /\ batches[k].stage[j] = "done") =>
                /\ i # j => EntryName(batches[k].files[i]) # EntryName(batches[k].files[j])
                /\ EntryName(batches[k].files[i]) # << "requirements", ".", "txt" >>

C17_PassThroughAndPng ==
    [][ \A k \in DOMAIN batches :
            BatchGenerated(k) =>
                LET b == batches[k]
                    zip == downloads'[Len(downloads')]
                IN  \A i \in DOMAIN b.files :
                        IF b.files[i].type # "image"
                        THEN [name |-> b.files[i].name,
                              data |-> BlobData(b.files[i].blob)] \in zip.entries
                        ELSE b.stage[i] = "done" =>
                                \E e \in zip.entries :
                                    /\ e.data.kind = "png"
                                    /\ Len(e.name) >= 3
                                    /\ e.name[Len(e.name)] = "png"
                                    /\ e.name[Len(e.name) - 1] = "."
                                    /\ Len(b.files[i].name) >= Len(e.name)
                                    /\ b.files[i].name[Len(e.name) - 1] = "."
                                    /\ SubSeq(e.name, 1, Len(e.name) - 2) =
                                           SubSeq(b.files[i].name, 1, Len(e.name) - 2)
      ]_vars

\* an archive was delivered for the image with a mask and the 3D model beside
\* it: the model's bytes are in it under the model's name, the image as a PNG
C17_Witness ==
    /\ Len(downloads) = 1
    /\ Len(downloads[1].of.files) = 2
    /\ Len(downloads[1].of.files[1].masks) = 1
    /\ downloads[1].of.files[2].type = "3d"
    /\ [name |-> << "m", ".", "glb" >>, data |-> BlobData(<< "m", ".", "glb" >>)]
           \in downloads[1].entries
    /\ \E e \in downloads[1].entries :
           e.name = << "a", ".", "png" >> /\ Len(e.data.fills) = 1

\* C18: in a batch export the compositions of two files are never in flight
\* together
C18_OneCompositionAtATime ==
    \A k \in DOMAIN batches :
        Cardinality({ i \in DOMAIN batches[k].files : batches[k].stage[i] = "load" }) <= 1

-----------------------------------------------------------------------------
(* Properties of the batch audit, under SpecAudit *)

\* C19: in a batch audit at most one image is being audited at any moment, and
\* an image is taken up only when every image before it in the list has been
\* audited or has failed
C19_OneAuditAtATime ==
    \A k \in DOMAIN audits :
        audits[k].kind = "batch" =>
            /\ Cardinality({ i \in DOMAIN files : audits[k].stage[i] \in InFlight }) <= 1
            /\ \A i, j \in DOMAIN files :
                  (/\ i < j
                   /\ files[i].type = "image"
                   /\ audits[k].stage[j] \in InFlight \cup { "done", "failed" }) =>
                      audits[k].stage[i] \in { "done", "failed" }

\* the request for the third file of a batch is with the model; the first
\* image was audited and the second failed
C19_Witness ==
    /\ Len(audits) = 1
    /\ audits[1].kind = "batch"
    /\ Len(files) = 3
    /\ audits[1].stage = << "done", "failed", "audit" >>

\* C20: when the audit of an image fails in a batch, the result stored with
\* every file, the failed one included, stays what it was, no error is shown,
\* and the batch goes on: the next image in the list that is still waiting is
\* selected and audited and the ones after it keep waiting, or, with none
\* waiting, the batch ends as a completed one; no step of a batch removes or
\* replaces the stored result of another file than the one whose audit
\* resolves
C20_FailureKeepsResults ==
    [][ \A k \in DOMAIN audits : \A i \in DOMAIN files :
            audits[k].kind = "batch" =>
                /\ (AuditFetchFailed(k, i) \/ AuditReadFailed(k, i) \/ AuditRejected(k, i)) =>
                      /\ \A j \in DOMAIN files :
                            files'[j].auditResult = files[j].auditResult
                      /\ notification'.type # "error"
                      /\ IF \E j \in DOMAIN files : audits[k].stage[j] = "waiting"
                         THEN LET next == CHOOSE j \in DOMAIN files :
                                      /\ audits[k].stage[j] = "waiting"
                                      /\ \A m \in 1..(j - 1) : audits[k].stage[m] # "waiting"
                              IN  /\ Len(audits') = Len(audits)
                                  /\ isProcessing'
                                  /\ currentFileIndex' = next
                                  /\ audits'[k].stage =
                                         [audits[k].stage EXCEPT ![i] = "failed",
                                                                 ![next] = "fetch"]
                         ELSE /\ Len(audits') = Len(audits) - 1
                              /\ notification' = showNotification("batch_audit_done", "success")
                /\ \A text \in AuditTexts :
                      AuditResolved(k, i, text) =>
                          \A j \in DOMAIN files :
                              j # i => files'[j].auditResult = files[j].auditResult
      ]_vars

\* in a batch over three images the first one was audited, the second one
\* failed, and the third one is being audited; the second keeps the result of
\* an audit made before the batch
C20_Witness ==
    /\ Len(audits) = 1
    /\ audits[1].kind = "batch"
    /\ Len(files) = 3
    /\ audits[1].stage[1] = "done"
    /\ audits[1].stage[2] = "failed"
    /\ audits[1].stage[3] \in InFlight
    /\ files[1].auditResult = "report"
    /\ files[2].auditResult = "no_result_retry"
    /\ files[3].auditResult = "none"

-----------------------------------------------------------------------------
(* Properties of the view, under SpecZoom *)

\* C21: in every state the zoom factor is at least 0.1 and at most 5.0
C21_ZoomInRange == ZoomMin <= zoom /\ zoom <= ZoomMax

\* the zoom-out button has brought the zoom to 0.1 on the second image, after
\* a switch from the first
C21_Witness ==
    /\ zoom = ZoomMin
    /\ currentFileIndex = 2
    /\ image = 2

\* C22: when another image becomes the active file, the zoom is the default
\* and no rectangle is in progress, or else the canvas takes no pointer event
\* until they are
C22_SwitchResetsView ==
    [][ \A idx \in DOMAIN files :
            (SelectFile(idx) /\ files[idx].type = "image") =>
                \/ zoom' = DefaultZoom /\ currentRect' = NoRect
                \/ ~ CanvasShown'
      ]_vars

-----------------------------------------------------------------------------
(* Further properties of the mask editor, under SpecEditor *)

\* C23: after every pointer-up and after every pointer-leave no rectangle is
\* in progress, whatever the tool mode is and was during the drag
C23_TerminalClearsRect ==
    [][ (handleMouseUp \/ handleMouseLeave) => currentRect' = NoRect ]_vars

-----------------------------------------------------------------------------
(* Properties of the mask store, under SpecStore *)

\* C24: a committed drag and a clear change the active file, a detector
\* response changes the file of its request, and each of them changes that
\* one file's mask collection alone: its other fields, every other file, and
\* the length and order of the list stay as they were
C24_OneFileOneField ==
    [][ \A target \in DOMAIN files :
            (\/ target = currentFileIndex /\ Clear
             \/ target = currentFileIndex /\ \E a, b \in Diagonal : DrawGesture(a, b)
             \/ \E k \in DOMAIN requests, results \in DetectorResults :
                    target = requests[k].idx /\ DetectResolved(k, results)) =>
                /\ DOMAIN files' = DOMAIN files
                /\ \A j \in DOMAIN files : j # target => files'[j] = files[j]
                /\ files'[target] = [files[target] EXCEPT !.masks = files'[target].masks]
      ]_vars

\* the first image, audited before, has had a rectangle appended and the
\* second image, audited and masked before, is as it was
C24_Witness ==
    /\ files[1].auditResult = "report"
    /\ Len(files[1].masks) = 2
    /\ files[2] = WorkedFile(PngImageFile)
    /\ files[3] = NewProjectFile(ModelFile)

-----------------------------------------------------------------------------
(* Properties of decode failures, under SpecDecode *)

\* C25: when the image of a file fails to decode the user is notified of an
\* error, and no pointer gesture changes the mask collection of a file whose
\* image cannot be decoded, whatever was loaded before
C25_UndecodableUnusable ==
    [][ /\ (\E l \in loads : ImageOnError(l)) => notification' # notification
        /\ \A i \in DOMAIN files :
               ((\E a, b \in Diagonal : DrawGesture(a, b)) /\ ~ files[i].decodes) =>
                   (i \in DOMAIN files' /\ files'[i].masks = files[i].masks)
      ]_vars

-----------------------------------------------------------------------------
(* Properties of the single export's outcome, under SpecExport *)

\* C26: every trigger of the export of a project of one image ends with the
\* download delivered and the completion toast shown, or with an error
\* notified to the user
C26_ExportDeliversOrReports ==
    [][ ((\E ctx \in BOOLEAN : handleBatchExport(ctx)) /\ exportTrigger' # exportTrigger) =>
            \/ /\ Len(downloads') = Len(downloads) + 1
               /\ notification' = showNotification("image_exported", "success")
            \/ /\ notification' # notification
               /\ notification'.type = "error"
      ]_vars

-----------------------------------------------------------------------------
(* Properties of repeated detection, under Spec *)

\* C27: the rectangles that a detector response appends are, in x, y, w, h,
\* origin and label, a function of the response's boxes alone: whatever the
\* collection held before and whenever the response arrives, one rectangle
\* per box is appended, in the order of the boxes, with the values computed
\* from that box; two responses with the same boxes append the same values
C27_SameBoxesSameRectangles ==
    [][ \A k \in DOMAIN requests, results \in DetectorResults :
            DetectResolved(k, results) =>
                LET before == Len(files[requests[k].idx].masks)
                    after == files'[requests[k].idx].masks
                IN  /\ Len(after) = before + Len(results)
                    /\ \A j \in DOMAIN results :
                           << after[before + j].x, after[before + j].y,
                              after[before + j].w, after[before + j].h,
                              after[before + j].type, after[before + j].label >>
                           = << ReconcileBox(results[j].box_2d).x,
                                ReconcileBox(results[j].box_2d).y,
                                ReconcileBox(results[j].box_2d).w,
                                ReconcileBox(results[j].box_2d).h,
                                "ai", results[j].label >>
      ]_vars

\* two responses with the same box have arrived at different times, and the
\* two rectangles they appended differ in nothing but the id
C27_Witness ==
    /\ Len(files) > 0
    /\ Len(files[1].masks) = 2
    /\ files[1].masks[1].type = "ai" /\ files[1].masks[2].type = "ai"
    /\ files[1].masks[1].label = "title" /\ files[1].masks[2].label = "title"
    /\ files[1].masks[1].id.t < files[1].masks[2].id.t
    /\ [files[1].masks[1] EXCEPT !.id = 0] = [files[1].masks[2] EXCEPT !.id = 0]

-----------------------------------------------------------------------------
(* Properties of panning, under SpecEditor *)

\* C28, within the scrollable range: during a drag that began in pan mode
\* every pointer-move in pan mode puts the scroll offset at the offset the
\* viewport had at the pointer-down of that drag minus the distance the
\* pointer has moved on the screen since, kept within the range the viewport
\* can scroll over; and no pointer-down, pointer-move or pointer-up in pan
\* mode changes a mask collection
C28_PanFollowsPointer ==
    [][ /\ \A p \in Points :
               (/\ dragRef.isDown /\ drag.kind = "pan" /\ ModeProp = "PAN"
                /\ handleMouseMove(ClientPos(p))) =>
                   scroll' = [left |-> ClampScroll(drag.a.x - (ClientPos(p).x - drag.b.x),
                                                   overflow.left),
                              top |-> ClampScroll(drag.a.y - (ClientPos(p).y - drag.b.y),
                                                  overflow.top)]
        /\ (files' # files /\ ModeProp = "PAN") =>
               ~ (MouseDown(Points) \/ MouseMove(Points) \/ handleMouseUp)
      ]_vars

\* a pan drag over a collection of one rectangle has scrolled the viewport
\* from the offset 0 to the offset 7
C28_Witness ==
    /\ drag.kind = "pan" /\ dragRef.isDown
    /\ drag.a.x = 0 /\ scroll.left = 7
    /\ Len(files) > 0 /\ Len(files[1].masks) = 1

\* C28 as stated: the scroll offset is the recorded offset minus the distance
\* moved, whatever the range the viewport can scroll over
C28_PanUnbounded ==
    [][ \A p \in Points :
            (/\ dragRef.isDown /\ drag.kind = "pan" /\ ModeProp = "PAN"
             /\ handleMouseMove(ClientPos(p))) =>
                scroll' = [left |-> drag.a.x - (ClientPos(p).x - drag.b.x),
                           top |-> drag.a.y - (ClientPos(p).y - drag.b.y)]
      ]_vars

-----------------------------------------------------------------------------
(* Properties of a drag across a change of the active file, under SpecSwitch *)

\* C29: a pointer-up appends a rectangle to no file but the one that was
\* active at the pointer-down of its drag
C29_CommitToFileOfPointerDown ==
    [][ \A i \in DOMAIN files :
            (handleMouseUp /\ i \in DOMAIN files' /\ files'[i].masks # files[i].masks) =>
                i = drag.of
      ]_vars

-----------------------------------------------------------------------------
(* Properties of a detection across a change of the active file, under
   SpecProject *)

\* C30: a detection request carries the index of the file that was active
\* when it was triggered and keeps it until it is answered; the detector's
\* response appends its rectangles to the collection of that file, and when
\* another file is active by then, the active file is as it was
C30_AppendsToFileOfTrigger ==
    [][ /\ (AutoDetect /\ requests' # requests) =>
               requests'[Len(requests')].idx = currentFileIndex
        /\ Len(requests') = Len(requests) =>
               \A k \in DOMAIN requests : requests'[k].idx = requests[k].idx
        /\ \A k \in DOMAIN requests, results \in DetectorResults :
               (/\ requests[k].idx # currentFileIndex
                /\ Len(results) >= 1
                /\ DetectResolved(k, results)) =>
                   /\ files'[currentFileIndex] = files[currentFileIndex]
                   /\ Len(files'[requests[k].idx].masks) =
                          Len(files[requests[k].idx].masks) + Len(results)
                   /\ \A j \in DOMAIN results :
                          files'[requests[k].idx].masks
                              [Len(files[requests[k].idx].masks) + j].type = "ai"
      ]_vars

\* the second file is the active one and holds a manual rectangle; the first
\* file has received the two rectangles of a response and no request is left
C30_Witness ==
    /\ Len(files) = 2
    /\ currentFileIndex = 2
    /\ requests = << >>
    /\ notification.msg = "detected"
    /\ Len(files[1].masks) = 2
    /\ files[1].masks[1].type = "ai" /\ files[1].masks[2].type = "ai"
    /\ files[1].masks[1].label = "title" /\ files[1].masks[2].label = "phone"
    /\ Len(files[2].masks) = 1
    /\ files[2].masks[1].type = "manual"

-----------------------------------------------------------------------------
(* Properties of mask changes while a detection is awaited, under SpecStore,
   whose initial states have the request of an image on its way *)

\* C31: when the detector's response is merged, the collection of the
\* request's file is what the drags, clears and copies made since the trigger
\* have left in it, rectangle for rectangle and in order, followed by the
\* detected rectangles; nothing done while the request was on its way is lost
\* or overtaken
C31_MergeKeepsLatest ==
    [][ \A k \in DOMAIN requests, results \in DetectorResults :
            DetectResolved(k, results) =>
                LET before == files[requests[k].idx].masks
                    after == files'[requests[k].idx].masks
                IN  /\ Len(after) = Len(before) + Len(results)
                    /\ \A j \in DOMAIN before : after[j] = before[j]
                    /\ \A j \in DOMAIN results : after[Len(before) + j].type = "ai"
      ]_vars

\* the first image held the stored rectangle when its detection was
\* triggered; that rectangle was cleared and a new one drawn while the
\* request was on its way, and the response has been merged after the new one
C31_Witness ==
    /\ requests = << >>
    /\ files[1].auditResult = "report"
    /\ Len(files[1].masks) = 2
    /\ files[1].masks[1].type = "manual"
    /\ files[1].masks[1].x # StoredMask.x
    /\ files[1].masks[2].type = "ai"

-----------------------------------------------------------------------------
(* Properties of the processing flag, under SpecBusy *)

\* C32: whenever a detection request, a single or batch audit, or a batch
\* export is in flight, isProcessing is true
C32_FlagWhileInFlight ==
    (requests # << >> \/ audits # << >> \/ batches # << >>) => isProcessing

\* C33: at most one call of the AI service is outstanding at any moment: the
\* detections awaiting detectSensitiveData and the audit items awaiting
\* auditBlueprint are never more than one
C33_OneAiRequest ==
    Cardinality({ k \in DOMAIN requests : requests[k].stage = "detect" })
    + Cardinality({ << k, i >> \in (DOMAIN audits) \X (1..2) :
                      i \in DOMAIN audits[k].stage /\ audits[k].stage[i] = "audit" })
    <= 1

-----------------------------------------------------------------------------
(* Termination, under SpecBusyFair *)

\* C34: when every outstanding collaborator call settles, by success or by
\* failure, no detection stays in flight for ever: time and again no
\* detection is in flight, or time and again one finishes. The same holds of
\* the audits, single and batch, and of the batch exports, and isProcessing
\* is false time and again
C34_EverythingFinishes ==
    /\ ([]<>(requests = << >>) \/ []<> << Len(requests') < Len(requests) >>_vars)
    /\ ([]<>(audits = << >>) \/ []<> << Len(audits') < Len(audits) >>_vars)
    /\ ([]<>(batches = << >>) \/ []<> << Len(batches') < Len(batches) >>_vars)
    /\ []<>(~ isProcessing)

\* a batch export whose second image failed to load has delivered its
\* archive, no operation is in flight and the flag is down
C34_Witness ==
    /\ requests = << >> /\ audits = << >> /\ batches = << >>
    /\ ~ isProcessing
    /\ Len(downloads) = 1
    /\ Len(files) = 2 /\ ~ files[2].decodes

-----------------------------------------------------------------------------
(* Properties of the editor in AUDIT mode, under SpecEditor *)

\* C35: in AUDIT mode the editor is given the pan tool, and no pointer-down,
\* pointer-move, pointer-up or pointer-leave handled in AUDIT mode changes a
\* mask collection, whatever tool is selected and whatever drag is under way
C35_AuditModeCommitsNothing ==
    [][ /\ appMode' = "AUDIT" => ModeProp' = "PAN"
        /\ (appMode = "AUDIT" /\ files' # files) =>
               ~ (\/ MouseDown(Points) \/ MouseMove(Points)
                  \/ handleMouseUp \/ handleMouseLeave)
      ]_vars

\* the draw tool is selected, a drag begun in draw mode and wide enough to be
\* committed has ended by a pointer-up in AUDIT mode, and the collection is
\* empty
C35_Witness ==
    /\ appMode = "AUDIT"
    /\ currentMode = "DRAW"
    /\ drag.kind = "draw" /\ drag.ended = "up"
    /\ Abs(drag.b.x - drag.a.x) > MinSize /\ Abs(drag.b.y - drag.a.y) > MinSize
    /\ currentRect.some
    /\ Len(files) > 0 /\ files[1].masks = << >>

-----------------------------------------------------------------------------
(* Properties of what a pointer-up may commit, under SpecEditor *)

\* C36: a pointer-up changes a mask collection only when it ends a drag that
\* is in progress and was begun by a pointer-down in draw mode, and the
\* rectangle it appends has a corner at the anchor of that drag
C36_CommitEndsDrawDrag ==
    [][ (files' # files /\ handleMouseUp) =>
            /\ dragRef.isDown
            /\ drag.kind = "draw"
            /\ LET m == files'[currentFileIndex].masks[Len(files'[currentFileIndex].masks)]
               IN  /\ drag.a.x \in { m.x, m.x + m.w }
                   /\ drag.a.y \in { m.y, m.y + m.h }
      ]_vars

-----------------------------------------------------------------------------
(* Properties of the batch export against later mask changes, under SpecBatch *)

\* C37: a batch export works on the files as they are when it is requested:
\* the list it holds is the list of that moment and no later step changes it,
\* the entry of an image is composed from the whole collection that image had
\* then, whatever its collection is when the image has loaded, and the
\* archive delivered holds the entries so composed
C37_ExportsRequestedMasks ==
    [][ /\ Len(batches') > Len(batches) => batches'[Len(batches')].files = files
        /\ Len(batches') = Len(batches) =>
               \A k \in DOMAIN batches : batches'[k].files = batches[k].files
        /\ \A k \in DOMAIN batches :
               \A i \in DOMAIN batches[k].files :
                  BatchImageLoaded(k, i, "blob") =>
                      /\ \E e \in batches'[k].entries :
                             /\ e.name = EntryName(batches[k].files[i])
                             /\ e.data = Compose(batches[k].files[i].blob, NaturalSize,
                                                 batches[k].files[i].masks)
                      /\ \A e \in batches'[k].entries :
                             e.name # EntryName(batches[k].files[i]) =>
                                 e \in batches[k].entries
        /\ \A k \in DOMAIN batches :
               BatchGenerated(k) =>
                   downloads'[Len(downloads')].entries = batches[k].entries
      ]_vars

\* a batch export is in flight for two images; the second image was given a
\* rectangle after the request, and its entry, composed since, has no fill
C37_Witness ==
    /\ Len(batches) = 1
    /\ Len(files) = 2
    /\ batches[1].files[2].type = "image"
    /\ batches[1].files[2].masks = << >>
    /\ Len(files[2].masks) = 1
    /\ batches[1].stage[2] = "done"
    /\ \E e \in batches[1].entries :
           /\ e.name = EntryName(files[2])
           /\ e.data.kind = "png"
           /\ e.data.fills = << >>

-----------------------------------------------------------------------------
(* Properties of the files that are no images, under Spec *)

\* C38: after every step the mask collection of every file that is no image
\* is empty, whichever file is active, and a copy-to-all from a file whose
\* collection is empty changes no file
C38_NonImagesUnmasked ==
    [][ /\ \A i \in DOMAIN files' : files'[i].type # "image" => files'[i].masks = << >>
        /\ (/\ IsImageMode
            /\ Len(files[currentFileIndex].masks) = 0
            /\ ApplyMasksToAll) => files' = files
      ]_vars

\* the rectangle of the image has been copied to all files, detected
\* rectangles included, and the 3D model beside it, now the active file, has
\* none
C38_Witness ==
    /\ Len(files) = 2
    /\ files[1].type = "image" /\ files[2].type # "image"
    /\ currentFileIndex = 2
    /\ notification.msg = "masks_applied"
    /\ Len(files[1].masks) = 2
    /\ files[1].masks[2].type = "ai"
    /\ files[2].masks = << >>

====
